---- MODULE Spec2Model ----
(***************************************************************************)
(* Semtrex: tree pattern matching.  The model follows the three stages of  *)
(* the library: a pattern tree (the parser's output), the Thompson NFA     *)
(* built from it by makeFA/buildFA, and the backtracking matcher doMatch   *)
(* run against a target tree.  A behaviour is a client issuing a short     *)
(* script of match / matchr calls; each matcher loop iteration is a step.  *)
(***************************************************************************)
EXTENDS Integers, Sequences, FiniteSets

(***************************************************************************)
(* Bounds of the model.                                                    *)
(***************************************************************************)
\* most children of the root of a target tree
MaxKids == 3
\* most children of the root's first child
MaxInner == 1
\* most elements of a sequence pattern
MaxSeq == 2
\* largest surface value of a target node
MaxVal == 3
\* largest context a client defines in
MaxContext == 1
\* most calls made on one registry
MaxCalls == 4
\* most nodes created in one run of tree mutations
MaxNodes == 3
\* most mutating calls made in one run of tree mutations
MaxOps == 3

(***************************************************************************)
(* Program constants (semtrex-types.ts).                                   *)
(***************************************************************************)
TransitionDown == 1
TransitionNone == 0
LITERAL_NOT == 1
LITERAL_SET == 2

\* StateType
Symbol == "Symbol"
Any == "Any"
Value == "Value"
Split == "Split"
Match == "Match"
GroupOpen == "GroupOpen"
GroupClose == "GroupClose"
Descend == "Descend"
Walk == "Walk"
Not == "Not"

isTransitionPop(t) == t < 0

(***************************************************************************)
(* Sequence helpers.                                                       *)
(***************************************************************************)
Last(s) == s[Len(s)]
Front(s) == SubSeq(s, 1, Len(s) - 1)
SeqUpTo(S, n) == UNION {[1..k -> S] : k \in 0..n}
IsPrefix(p, q) == Len(p) <= Len(q) /\ SubSeq(q, 1, Len(p)) = p

(***************************************************************************)
(* Semantic trees (tree.ts).  A tree value is [sym, val, kids]; a node of  *)
(* a tree is addressed by its 1-indexed path from the root, so the parent  *)
(* pointer of a node is its path without the last index.  null stands for  *)
(* the null node reference (0 is never a child index).                     *)
(***************************************************************************)
null == <<0>>

Node(s, v, kids) == [sym |-> s, val |-> v, kids |-> kids]
Leaf(s) == Node(s, 0, <<>>)

RECURSIVE getByPath(_, _)
getByPath(r, path) ==
  IF path = <<>> THEN r
  ELSE IF Head(path) \in 1..Len(r.kids)
       THEN getByPath(r.kids[Head(path)], Tail(path))
       ELSE null

\* the node record at a (valid) path
NodeAt(r, p) == getByPath(r, p)

childCount(r, p) == Len(NodeAt(r, p).kids)

childAt(r, p, index) ==
  IF index \in 1..childCount(r, p) THEN Append(p, index) ELSE null

getParent(p) == IF p = <<>> THEN null ELSE Front(p)

nextSibling(r, p) ==
  IF p = <<>> THEN null
  ELSE IF Last(p) + 1 <= childCount(r, Front(p))
       THEN Append(Front(p), Last(p) + 1)
       ELSE null

nodeIndex(p) == IF p = <<>> THEN 0 ELSE Last(p)

getPath(p) == p

RECURSIVE walkUp(_, _)
walkUp(r, n) ==
  IF n = null THEN null
  ELSE LET sib == nextSibling(r, n)
       IN IF sib # null THEN sib ELSE walkUp(r, getParent(n))

nextInWalk(r, p) ==
  IF childCount(r, p) > 0 THEN Append(p, 1) ELSE walkUp(r, p)

\* lexicographic order on paths (a proper prefix comes first)
RECURSIVE PathLeq(_, _)
PathLeq(p, q) ==
  IF p = <<>> THEN TRUE
  ELSE IF q = <<>> THEN FALSE
  ELSE IF Head(p) # Head(q) THEN Head(p) < Head(q)
  ELSE PathLeq(Tail(p), Tail(q))

(***************************************************************************)
(* Pattern trees (the parser's output, semtrex-parser.ts).  One record     *)
(* shape for every SEMTREX_* operator: op, set (first child is a           *)
(* SYMBOL_SET / VALUE_SET), syms (the symbols of the SEMTREX_SYMBOL        *)
(* children, or the group's surface), vals (the value children as          *)
(* [sym, val]) and kids (the operand patterns).                            *)
(***************************************************************************)
Pat(op, set, syms, vals, kids) ==
  [op |-> op, set |-> set, syms |-> syms, vals |-> vals, kids |-> kids]

Lit(s) == Pat("SYMBOL_LITERAL", FALSE, <<s>>, <<>>, <<>>)
LitD(s, x) == Pat("SYMBOL_LITERAL", FALSE, <<s>>, <<>>, <<x>>)
LitNot(s) == Pat("SYMBOL_LITERAL_NOT", FALSE, <<s>>, <<>>, <<>>)
LitSet(ss) == Pat("SYMBOL_LITERAL", TRUE, ss, <<>>, <<>>)
LitNotSet(ss) == Pat("SYMBOL_LITERAL_NOT", TRUE, ss, <<>>, <<>>)
AnyP == Pat("SYMBOL_ANY", FALSE, <<>>, <<>>, <<>>)
ValP(s, v) == Pat("VALUE_LITERAL", FALSE, <<>>, <<[sym |-> s, val |-> v]>>, <<>>)
ValNotP(s, v) == Pat("VALUE_LITERAL_NOT", FALSE, <<>>, <<[sym |-> s, val |-> v]>>, <<>>)
\* L={v1,...} and L!={v1,...}: every value child carries the symbol L
ValSetP(s, vs) ==
  Pat("VALUE_LITERAL", TRUE, <<>>, [i \in 1..Len(vs) |-> [sym |-> s, val |-> vs[i]]], <<>>)
ValNotSetP(s, vs) ==
  Pat("VALUE_LITERAL_NOT", TRUE, <<>>, [i \in 1..Len(vs) |-> [sym |-> s, val |-> vs[i]]], <<>>)
SeqP(kids) == Pat("SEQUENCE", FALSE, <<>>, <<>>, kids)
OrP(a, b) == Pat("OR", FALSE, <<>>, <<>>, <<a, b>>)
Star(x) == Pat("ZERO_OR_MORE", FALSE, <<>>, <<>>, <<x>>)
Plus(x) == Pat("ONE_OR_MORE", FALSE, <<>>, <<>>, <<x>>)
Quest(x) == Pat("ZERO_OR_ONE", FALSE, <<>>, <<>>, <<x>>)
GroupP(g, x) == Pat("GROUP", FALSE, <<g>>, <<>>, <<x>>)
DescendP(x) == Pat("DESCEND", FALSE, <<>>, <<>>, <<x>>)
NotP(x) == Pat("NOT", FALSE, <<>>, <<>>, <<x>>)
WalkP(x) == Pat("WALK", FALSE, <<>>, <<>>, <<x>>)

(***************************************************************************)
(* NFA states (semtrex-types.ts).  States are numbered in creation order;  *)
(* MatchId is the shared accept state and NoState the null reference.      *)
(***************************************************************************)
MatchId == 0
NoState == -1

createState(type) ==
  [type |-> type, out |-> NoState, transition |-> TransitionNone,
   out1 |-> NoState, transition1 |-> TransitionNone,
   flags |-> 0, syms |-> <<>>, vals |-> <<>>,
   uid |-> 0, gsym |-> "", openState |-> NoState]

matchState == createState(Match)

HasFlag(flags, bit) == (flags \div bit) % 2 = 1

(***************************************************************************)
(* NFA construction (semtrex-fsa: patch, buildFA, makeFA).  A fragment is  *)
(* [start, outputs, sts, gid]: sts is the sequence of states created so    *)
(* far and gid the value of groupIdCounter.                                *)
(***************************************************************************)
PatchTarget(s, field) == [state |-> s, field |-> field]

list1(s, field) == <<PatchTarget(s, field)>>

\* faulty variant: only the out field of a target is patched
patchOne_outOnly(sts, t, dest, level) ==
  IF t.field = "out"
  THEN [sts EXCEPT ![t.state].out = dest,
                   ![t.state].transition =
                      IF @ # TransitionNone THEN @ + (-level) ELSE @]
  ELSE sts

patchOne(sts, t, dest, level) ==
  LET s == sts[t.state]
      tr == IF t.field = "out" THEN s.transition ELSE s.transition1
      adj == IF tr # TransitionNone THEN tr + (-level) ELSE tr
      fin == IF tr # TransitionNone /\ adj = 0 /\ s.type \notin {Symbol, Any, Value}
             THEN TransitionNone ELSE adj
  IN IF t.field = "out"
     THEN [sts EXCEPT ![t.state].out = dest, ![t.state].transition = fin]
     ELSE [sts EXCEPT ![t.state].out1 = dest, ![t.state].transition1 = fin]

RECURSIVE patch(_, _, _, _)
patch(sts, targets, dest, level) ==
  IF targets = <<>> THEN sts
  ELSE patch(patchOne(sts, Head(targets), dest, level), Tail(targets), dest, level)

Frag(start, outputs, sts, gid) ==
  [start |-> start, outputs |-> outputs, sts |-> sts, gid |-> gid]

LiteralFlags(t, notOp) ==
  (IF t.op = notOp THEN LITERAL_NOT ELSE 0) + (IF t.set THEN LITERAL_SET ELSE 0)

\* the VALUE case: "v = childAt(t, 1)" is the value node itself or, for a set,
\* the SEMTREX_VALUE_SET node; buildFA tells them apart by v.symbol alone
firstIsValueSet(t) == t.set \/ t.vals[1].sym = "SEMTREX_VALUE_SET"

ValueFlags(t) ==
  (IF t.op = "VALUE_LITERAL_NOT" THEN LITERAL_NOT ELSE 0)
  + (IF firstIsValueSet(t) THEN LITERAL_SET ELSE 0)

\* the state keeps clone(v): [sym, val] of v for a single value, and for a
\* state flagged as a set the children of v, which valueMatches iterates
valueChildren(t) ==
  IF t.set THEN t.vals
  ELSE IF firstIsValueSet(t) THEN <<>>
  ELSE t.vals

RECURSIVE buildFA(_, _, _, _)
RECURSIVE buildSeq(_, _, _, _, _, _, _)

\* the right-to-left loop of the SEQUENCE case: x is the loop index
buildSeq(t, x, level, sts, gid, last, lastOutputs) ==
  IF x < 1 THEN Frag(last, lastOutputs, sts, gid)
  ELSE LET frag == buildFA(t.kids[x], level, sts, gid)
       IN IF last # NoState
          THEN buildSeq(t, x - 1, level, patch(frag.sts, frag.outputs, last, level),
                        frag.gid, frag.start, lastOutputs)
          ELSE buildSeq(t, x - 1, level, frag.sts, frag.gid, frag.start, frag.outputs)

buildFA(t, level, sts, gid) ==
  LET id == Len(sts) + 1
      c == Len(t.kids)
  IN
  CASE t.op \in {"VALUE_LITERAL", "VALUE_LITERAL_NOT"} ->
         LET s == [createState(Value) EXCEPT
                     !.flags = ValueFlags(t),
                     !.vals = valueChildren(t), !.transition = level]
         IN Frag(id, list1(id, "out"), Append(sts, s), gid)
    [] t.op \in {"SYMBOL_LITERAL", "SYMBOL_LITERAL_NOT"} ->
         LET s == [createState(Symbol) EXCEPT
                     !.flags = LiteralFlags(t, "SYMBOL_LITERAL_NOT"),
                     !.syms = t.syms]
         IN IF c > 0
            THEN LET inner == buildFA(t.kids[1], level - 1,
                                      Append(sts, [s EXCEPT !.transition = TransitionDown]), gid)
                 IN Frag(id, inner.outputs,
                         [inner.sts EXCEPT ![id].out = inner.start], inner.gid)
            ELSE Frag(id, list1(id, "out"),
                      Append(sts, [s EXCEPT !.transition = level]), gid)
    [] t.op = "SYMBOL_ANY" ->
         LET s == createState(Any)
         IN IF c > 0
            THEN LET inner == buildFA(t.kids[1], level - 1,
                                      Append(sts, [s EXCEPT !.transition = TransitionDown]), gid)
                 IN Frag(id, inner.outputs,
                         [inner.sts EXCEPT ![id].out = inner.start], inner.gid)
            ELSE Frag(id, list1(id, "out"),
                      Append(sts, [s EXCEPT !.transition = level]), gid)
    [] t.op = "SEQUENCE" ->
         buildSeq(t, c, level, sts, gid, NoState, <<>>)
    [] t.op = "OR" ->
         LET left == buildFA(t.kids[1], level, Append(sts, createState(Split)), gid)
             right == buildFA(t.kids[2], level, left.sts, left.gid)
         IN Frag(id, left.outputs \o right.outputs,
                 [right.sts EXCEPT ![id].out = left.start, ![id].out1 = right.start],
                 right.gid)
    [] t.op = "ZERO_OR_MORE" ->
         LET inner == buildFA(t.kids[1], level, Append(sts, createState(Split)), gid)
             wired == [inner.sts EXCEPT ![id].out = inner.start]
         IN Frag(id, list1(id, "out1"), patch(wired, inner.outputs, id, level), inner.gid)
    [] t.op = "ONE_OR_MORE" ->
         LET inner == buildFA(t.kids[1], level, Append(sts, createState(Split)), gid)
             wired == [inner.sts EXCEPT ![id].out = inner.start]
         IN Frag(inner.start, list1(id, "out1"),
                 patch(wired, inner.outputs, id, level), inner.gid)
    [] t.op = "ZERO_OR_ONE" ->
         LET inner == buildFA(t.kids[1], level, Append(sts, createState(Split)), gid)
         IN Frag(id, inner.outputs \o list1(id, "out1"),
                 [inner.sts EXCEPT ![id].out = inner.start], inner.gid)
    [] t.op = "GROUP" ->
         LET groupId == gid + 1
             openState == [createState(GroupOpen) EXCEPT
                             !.gsym = t.syms[1], !.uid = groupId]
             inner == buildFA(t.kids[1], level, Append(sts, openState), groupId)
             closeId == Len(inner.sts) + 1
             closeState == [createState(GroupClose) EXCEPT !.openState = id]
             wired == Append([inner.sts EXCEPT ![id].out = inner.start], closeState)
         IN Frag(id, list1(closeId, "out"),
                 patch(wired, inner.outputs, closeId, level), inner.gid)
    [] t.op = "DESCEND" ->
         LET inner == buildFA(t.kids[1], level - 1, Append(sts, createState(Descend)), gid)
         IN Frag(id, inner.outputs,
                 [inner.sts EXCEPT ![id].out = inner.start], inner.gid)
    [] t.op = "NOT" ->
         LET inner == buildFA(t.kids[1], level, Append(sts, createState(Not)), gid)
         IN Frag(id, inner.outputs \o list1(id, "out1"),
                 [inner.sts EXCEPT ![id].out = inner.start], inner.gid)
    [] t.op = "WALK" ->
         LET inner == buildFA(t.kids[1], level, Append(sts, createState(Walk)), gid)
         IN Frag(id, inner.outputs,
                 [inner.sts EXCEPT ![id].out = inner.start], inner.gid)

makeFA(semtrexTree) ==
  LET frag == buildFA(semtrexTree, 0, <<>>, 0)
  IN [start |-> frag.start, sts |-> patch(frag.sts, frag.outputs, MatchId, 0),
      gid |-> frag.gid]

\* faulty variant: patching the last outputs also writes into the accept state
fsaAfterMakeFA_patchesAccept(m, fa) ==
  [m EXCEPT !.groupIdCounter = fa.gid, !.matchState.out = fa.start]

\* what makeFA leaves in the module-level state: groupIdCounter was reset and
\* counted up once per group; matchState is only the destination of patch
fsaAfterMakeFA(m, fa) == [m EXCEPT !.groupIdCounter = fa.gid]

(***************************************************************************)
(* Matcher helpers (semtrex-match: symbolMatches, valueMatches, cursor     *)
(* movement).  r is the target tree, cursor a node of it.                  *)
(***************************************************************************)
symbolMatches(st, node) ==
  LET isSet == HasFlag(st.flags, LITERAL_SET)
      isNot == HasFlag(st.flags, LITERAL_NOT)
      found == IF isSet
               THEN \E i \in 1..Len(st.syms) : st.syms[i] = node.sym
               ELSE st.syms[1] = node.sym
  IN IF isNot THEN ~found ELSE found

surfaceEquals(a, b) == a = b

valueMatches(st, node) ==
  LET isSet == HasFlag(st.flags, LITERAL_SET)
      isNot == HasFlag(st.flags, LITERAL_NOT)
      found == IF isSet
               THEN \E i \in 1..Len(st.vals) :
                      surfaceEquals(st.vals[i].val, node.val) /\ st.vals[i].sym = node.sym
               ELSE surfaceEquals(st.vals[1].val, node.val) /\ st.vals[1].sym = node.sym
  IN IF isNot THEN ~found ELSE found

\* faulty variant: the descent leaves the cursor on the matched node
cursorDown_stay(r, cursor) == cursor

cursorDown(r, cursor) == childAt(r, cursor, 1)

cursorNext(r, cursor) == nextSibling(r, cursor)

RECURSIVE popLevels(_, _)
popLevels(n, levels) ==
  IF levels = 0 \/ n = null THEN n ELSE popLevels(getParent(n), levels - 1)

cursorUp(r, cursor, levels) ==
  LET n == popLevels(cursor, levels)
  IN IF n # null THEN nextSibling(r, n) ELSE null

\* faulty variant: transition 0 read as "do not move" instead of "next sibling"
advanceCursor_none(r, cursor, transition) ==
  IF transition = TransitionDown THEN cursorDown(r, cursor)
  ELSE IF isTransitionPop(transition) THEN cursorUp(r, cursor, -transition)
  ELSE cursor

advanceCursor(r, cursor, transition) ==
  IF transition = TransitionDown THEN cursorDown(r, cursor)
  ELSE IF isTransitionPop(transition) THEN cursorUp(r, cursor, -transition)
  ELSE IF transition = 0 THEN cursorNext(r, cursor)
  ELSE cursor

cloneGroups(groups) == groups

(***************************************************************************)
(* State of the program.                                                   *)
(*   script   the calls the client makes, in order: [api, pat, tree]       *)
(*   ci       index of the call in progress (or next to start)             *)
(*   results  what each finished call returned                             *)
(*   nfa      the automaton makeFA built for the call in progress          *)
(*   frames   the active doMatch invocations, innermost last; each holds   *)
(*            the locals state, cursor, groups, openGroupStack, stack,     *)
(*            and ret: "run" while looping, else the value returned        *)
(*   pc       "idle" between calls, "run" inside doMatch, "done"           *)
(*   fsa      the module-level state the automata share: groupIdCounter    *)
(*            (semtrex-fsa) and the accept state matchState (semtrex-types)*)
(***************************************************************************)
VARIABLES script, ci, results, nfa, frames, pc, fsa

(***************************************************************************)
(* State of the other components.                                          *)
(*   input    the pattern string given to parseSemtrex, as characters      *)
(*   tokens   what tokenize returned for it                                *)
(*   parsed   what parseSemtrex returned or raised                         *)
(*   contexts the SemTable: context -> ContextStore                        *)
(*   defined  the define* calls made so far and the ids they returned      *)
(*   heap     the SemNode objects: node -> [parent, children]              *)
(*   thrown   the tree mutations made so far and whether each raised       *)
(***************************************************************************)
VARIABLES input, tokens, parsed, contexts, defined, heap, thrown

matcherVars == <<script, ci, results, nfa, frames, pc, fsa>>

parserVars == <<input, tokens, parsed>>

registryVars == <<contexts, defined>>

treeVars == <<heap, thrown>>

vars == <<script, ci, results, nfa, frames, pc, fsa,
          input, tokens, parsed, contexts, defined, heap, thrown>>

\* the components a matcher step does not touch
others == <<parserVars, registryVars, treeVars>>

Tree == script[ci].tree

StateOf(id) == IF id = MatchId THEN fsa.matchState ELSE nfa.sts[id]

NewFrame(startState, tree) ==
  [state |-> startState, cursor |-> tree, groups |-> <<>>, open |-> <<>>,
   stack |-> <<>>, ret |-> "run"]

Top == Last(frames)

SetTop(f) == [frames EXCEPT ![Len(frames)] = f]

BranchPoint(state, cursor, groups, walkNode, walkRoot) ==
  [state |-> state, cursor |-> cursor,
   path |-> IF cursor # null THEN getPath(cursor) ELSE <<>>,
   groups |-> cloneGroups(groups), walkNode |-> walkNode, walkRoot |-> walkRoot]

\* the node a Walk branch point resumes at
walkStep(bp) == nextInWalk(Tree, bp.walkNode)

\* faulty variant: a Split branch point resumes its alternative at the
\* cursor the failed branch left
RECURSIVE backtrack_keepCursor(_)
backtrack_keepCursor(f) ==
  IF f.stack = <<>> THEN [ok |-> FALSE, f |-> f]
  ELSE LET bp == Last(f.stack)
           g == [f EXCEPT !.stack = Front(f.stack), !.groups = bp.groups, !.open = <<>>]
           bst == StateOf(bp.state)
       IN IF bst.type = Walk /\ bp.walkNode # null
          THEN LET nextWalk == walkStep(bp)
               IN IF nextWalk # null
                  THEN [ok |-> TRUE,
                        f |-> [g EXCEPT !.cursor = nextWalk,
                                        !.stack = Append(g.stack,
                                           BranchPoint(bp.state, nextWalk, g.groups,
                                                       nextWalk, bp.walkRoot)),
                                        !.state = bst.out]]
                  ELSE backtrack_keepCursor(g)
          ELSE IF bst.type = Split
          THEN [ok |-> TRUE, f |-> [g EXCEPT !.state = bst.out1]]
          ELSE [ok |-> TRUE, f |-> [g EXCEPT !.cursor = bp.cursor, !.state = bp.state]]

\* backtrack(): [ok, f] where f is the frame after the pops
RECURSIVE backtrack(_)
backtrack(f) ==
  IF f.stack = <<>> THEN [ok |-> FALSE, f |-> f]
  ELSE LET bp == Last(f.stack)
           g == [f EXCEPT !.stack = Front(f.stack), !.groups = bp.groups, !.open = <<>>]
           bst == StateOf(bp.state)
       IN IF bst.type = Walk /\ bp.walkNode # null
          THEN LET nextWalk == walkStep(bp)
               IN IF nextWalk # null
                  THEN [ok |-> TRUE,
                        f |-> [g EXCEPT !.cursor = nextWalk,
                                        !.stack = Append(g.stack,
                                           BranchPoint(bp.state, nextWalk, g.groups,
                                                       nextWalk, bp.walkRoot)),
                                        !.state = bst.out]]
                  ELSE backtrack(g)
          ELSE IF bst.type = Split
          THEN [ok |-> TRUE, f |-> [g EXCEPT !.cursor = bp.cursor, !.state = bst.out1]]
          ELSE [ok |-> TRUE, f |-> [g EXCEPT !.cursor = bp.cursor, !.state = bp.state]]

\* faulty variant: a failure returns at once, the branch points are never resumed
Fail_giveUp(f) == [f EXCEPT !.ret = "false", !.groups = <<>>]

\* "if (!backtrack()) return { matched: false, groups: [] }; continue;"
Fail(f) ==
  LET b == backtrack(f)
  IN IF b.ok THEN b.f ELSE [b.f EXCEPT !.ret = "false", !.groups = <<>>]

Capture(uid, symbol, startPath, startNode) ==
  [uid |-> uid, symbol |-> symbol, startPath |-> startPath, startNode |-> startNode,
   endNode |-> null, children |-> <<>>]

(***************************************************************************)
(* captureToResult / countSiblingsBetween.                                 *)
(***************************************************************************)
RECURSIVE countFrom(_, _, _)
countFrom(r, n, end) ==
  IF n = null \/ n = end THEN 0 ELSE 1 + countFrom(r, nextSibling(r, n), end)

countSiblingsBetween(r, start, end) ==
  LET count == countFrom(r, start, end) IN IF count = 0 THEN 1 ELSE count

siblingsCountOf(r, cap) ==
  LET raw ==
        IF cap.startNode # null /\ cap.endNode # null
        THEN LET startPath == getPath(cap.startNode)
                 endPath == getPath(cap.endNode)
             IN IF Len(startPath) > 0 /\ Len(endPath) > 0
                THEN IF getParent(cap.startNode) = getParent(cap.endNode)
                     THEN Last(endPath) - Last(startPath)
                     ELSE IF cap.endNode = cap.startNode THEN 1
                     ELSE countSiblingsBetween(r, cap.startNode, cap.endNode)
                ELSE 1
        ELSE 0
  IN IF raw <= 0 THEN 1 ELSE raw

RECURSIVE captureToResult(_, _)
captureToResult(cap, r) ==
  [symbol |-> cap.symbol, path |-> cap.startPath,
   siblingsCount |-> siblingsCountOf(r, cap),
   children |-> [i \in 1..Len(cap.children) |-> captureToResult(cap.children[i], r)]]

(***************************************************************************)
(* The calls.  A finished call leaves [api, outcome, ret, isNull, groups]:  *)
(* ret is the returned value (a boolean for match; the capture list for    *)
(* matchr, with isNull set when matchr returned null), groups the raw      *)
(* capture list doMatch returned, and outcome is "diverged" when the call  *)
(* entered a loop or recursion it never leaves (SplitRepeats, NotRepeats)  *)
(* instead of returning.                                                   *)
(***************************************************************************)
\* a call whose target is the node at path at of a tree
CallAt(api, pat, tree, at) == [api |-> api, pat |-> pat, tree |-> tree, at |-> at]

\* a call whose target is the root of its tree
CallOf(api, pat, tree) == CallAt(api, pat, tree, <<>>)

Result(api, outcome, ret, isNull, groups) ==
  [api |-> api, outcome |-> outcome, ret |-> ret, isNull |-> isNull, groups |-> groups]

Finish(r) ==
  /\ results' = Append(results, r)
  /\ ci' = ci + 1
  /\ frames' = <<>>
  /\ pc' = IF ci + 1 > Len(script) THEN "done" ELSE "idle"
  /\ UNCHANGED <<script, nfa, fsa, others>>

Diverge == Finish(Result(script[ci].api, "diverged", FALSE, FALSE, <<>>))

Running == pc = "run" /\ Top.ret = "run"

AtType(type) == Running /\ Top.state # NoState /\ StateOf(Top.state).type = type

Continue(f) ==
  /\ frames' = SetTop(f)
  /\ UNCHANGED <<script, ci, results, nfa, pc, fsa, others>>

\* match / matchr: makeFA, then doMatch(start, tree) begins
Call ==
  /\ pc = "idle"
  /\ ci <= Len(script)
  /\ script[ci].api \in {"match", "matchr"}
  /\ LET fa == makeFA(script[ci].pat)
     IN /\ nfa' = fa
        /\ frames' = <<NewFrame(fa.start, script[ci].at)>>
        /\ fsa' = fsaAfterMakeFA(fsa, fa)
  /\ pc' = "run"
  /\ UNCHANGED <<script, ci, results, others>>

\* the loop ends: Match is reached ("return { matched: true, groups }") or
\* while (state) fails ("return { matched: false, groups: [] }")
StepMatch ==
  /\ Running
  /\ IF Top.state = NoState
     THEN Continue([Top EXCEPT !.ret = "false", !.groups = <<>>])
     ELSE /\ StateOf(Top.state).type = Match
          /\ Continue([Top EXCEPT !.ret = "true"])

\* the null-cursor test at the top of the loop
StepNullCursor ==
  /\ Running
  /\ Top.state # NoState
  /\ Top.cursor = null
  /\ StateOf(Top.state).type \notin
       {Match, GroupClose, GroupOpen, Walk, Split, Not, Descend}
  /\ Continue(Fail(Top))

StepSymbol ==
  /\ AtType(Symbol)
  /\ Top.cursor # null
  /\ LET st == StateOf(Top.state)
     IN IF ~symbolMatches(st, NodeAt(Tree, Top.cursor))
        THEN Continue(Fail(Top))
        ELSE Continue([Top EXCEPT !.cursor = advanceCursor(Tree, Top.cursor, st.transition),
                                  !.state = st.out])

StepValue ==
  /\ AtType(Value)
  /\ Top.cursor # null
  /\ LET st == StateOf(Top.state)
     IN IF ~valueMatches(st, NodeAt(Tree, Top.cursor))
        THEN Continue(Fail(Top))
        ELSE Continue([Top EXCEPT !.cursor = advanceCursor(Tree, Top.cursor, st.transition),
                                  !.state = st.out])

StepAny ==
  /\ AtType(Any)
  /\ Top.cursor # null
  /\ LET st == StateOf(Top.state)
     IN Continue([Top EXCEPT !.cursor = advanceCursor(Tree, Top.cursor, st.transition),
                             !.state = st.out])

\* The loop has no exit on this run: the Split about to push a branch point
\* already has one on the stack for the same cursor.  Nothing below that
\* branch point was popped since, and the loop's control depends only on
\* (state, cursor) and the stack above, so the iterations since then repeat
\* forever, each round leaving the stack deeper.
SplitRepeats(f) ==
  \E j \in 1..Len(f.stack) :
    f.stack[j].state = f.state /\ f.stack[j].cursor = f.cursor

\* The recursion has no exit on this run: the Not about to call doMatch is
\* already waiting, in an outer invocation, on the same state and cursor.
NotRepeats ==
  \E i \in 1..(Len(frames) - 1) :
    frames[i].state = Top.state /\ frames[i].cursor = Top.cursor

StepSplit ==
  /\ AtType(Split)
  /\ IF SplitRepeats(Top)
     THEN Diverge
     ELSE Continue([Top EXCEPT
            !.stack = Append(Top.stack,
                             BranchPoint(Top.state, Top.cursor, Top.groups, null, null)),
            !.state = StateOf(Top.state).out])

StepGroupOpen ==
  /\ AtType(GroupOpen)
  /\ LET st == StateOf(Top.state)
         capture == Capture(st.uid, st.gsym,
                            IF Top.cursor # null THEN getPath(Top.cursor) ELSE <<>>,
                            Top.cursor)
     IN Continue([Top EXCEPT !.open = Append(Top.open, capture), !.state = st.out])

StepGroupClose ==
  /\ AtType(GroupClose)
  /\ LET st == StateOf(Top.state)
     IN IF Top.open = <<>>
        THEN Continue([Top EXCEPT !.state = st.out])
        ELSE LET capture == [Last(Top.open) EXCEPT !.endNode = Top.cursor]
                 rest == Front(Top.open)
             IN IF Len(rest) > 0
                THEN Continue([Top EXCEPT
                       !.open = [rest EXCEPT ![Len(rest)].children = Append(@, capture)],
                       !.state = st.out])
                ELSE Continue([Top EXCEPT
                       !.open = rest,
                       !.groups = Append(Top.groups, capture),
                       !.state = st.out])

StepDescend ==
  /\ AtType(Descend)
  /\ IF Top.cursor = null
     THEN Continue(Fail(Top))
     ELSE Continue([Top EXCEPT !.cursor = cursorDown(Tree, Top.cursor),
                               !.state = StateOf(Top.state).out])

StepWalk ==
  /\ AtType(Walk)
  /\ IF Top.cursor = null
     THEN Continue(Fail(Top))
     ELSE Continue([Top EXCEPT
            !.stack = Append(Top.stack,
                             BranchPoint(Top.state, Top.cursor, Top.groups,
                                         Top.cursor, Top.cursor)),
            !.state = StateOf(Top.state).out])

\* Not: "const innerResult = doMatch(state.out!, cursor!)" is entered
StepNot ==
  /\ AtType(Not)
  /\ IF NotRepeats
     THEN Diverge
     ELSE /\ frames' = Append(frames, NewFrame(StateOf(Top.state).out, Top.cursor))
          /\ UNCHANGED <<script, ci, results, nfa, pc, fsa, others>>

\* faulty variant: the Not continues via out1 whatever its body did
notOutcome_ignore(caller, innerRet) ==
  [caller EXCEPT !.state = StateOf(caller.state).out1]

\* faulty variant: the captures of the inner doMatch are kept by the caller
notOutcome_adopt(caller, innerRet) ==
  LET f == IF innerRet = "true" THEN Fail(caller)
           ELSE [caller EXCEPT !.state = StateOf(caller.state).out1]
  IN [f EXCEPT !.groups = f.groups \o Top.groups]

\* the Not case after its inner doMatch returned: a matching body fails the
\* Not (backtrack), a failing body lets it continue via out1
notOutcome(caller, innerRet) ==
  IF innerRet = "true"
  THEN Fail(caller)
  ELSE [caller EXCEPT !.state = StateOf(caller.state).out1]

\* the inner doMatch returned to the Not case of its caller
NotReturn ==
  /\ pc = "run"
  /\ Len(frames) > 1
  /\ Top.ret # "run"
  /\ frames' = Append(SubSeq(frames, 1, Len(frames) - 2),
                      notOutcome(frames[Len(frames) - 1], Top.ret))
  /\ UNCHANGED <<script, ci, results, nfa, pc, fsa, others>>

\* match: "return result.matched"
match(matched) == matched

\* faulty variant: an empty capture list is returned as null
matchrIsNull_empty(matched, groups) == ~matched \/ groups = <<>>

\* matchr: "if (!result.matched) return null"
matchrIsNull(matched, groups) == ~matched

\* matchr: "return result.groups.map(g => captureToResult(g, tree))"
matchrList(groups, r) ==
  [i \in 1..Len(groups) |-> captureToResult(groups[i], r)]

\* doMatch returned to match / matchr, which returns to the client
Return ==
  /\ pc = "run"
  /\ Len(frames) = 1
  /\ Top.ret # "run"
  /\ LET matched == Top.ret = "true"
         api == script[ci].api
     IN IF api = "match"
        THEN Finish(Result(api, "ok", match(matched), FALSE, Top.groups))
        ELSE IF matchrIsNull(matched, Top.groups)
        THEN Finish(Result(api, "ok", <<>>, TRUE, Top.groups))
        ELSE Finish(Result(api, "ok", matchrList(Top.groups, Tree), FALSE, Top.groups))

\* call i returned (it did not diverge or raise)
Returned(i) == i \in DOMAIN results /\ results[i].outcome = "ok"

\* does path p resolve in tree t
RECURSIVE HasNode(_, _)
HasNode(t, p) ==
  \/ p = <<>>
  \/ /\ Head(p) \in 1..Len(t.kids)
     /\ HasNode(t.kids[Head(p)], Tail(p))

\* getMatchedNodes: the loop "for (let i = 1; i < result.siblingsCount; i++)";
\* nextSibling(n!) raises a TypeError when n is null
RECURSIVE matchedNodesLoop(_, _, _, _, _)
matchedNodesLoop(r, n, i, siblingsCount, nodes) ==
  IF ~(i < siblingsCount) THEN [raised |-> FALSE, nodes |-> nodes]
  ELSE IF n = null THEN [raised |-> TRUE, nodes |-> nodes]
  ELSE LET m == nextSibling(r, n)
       IN matchedNodesLoop(r, m, i + 1, siblingsCount,
                           IF m # null THEN Append(nodes, m) ELSE nodes)

\* faulty variant: only the start node is returned
getMatchedNodes_startOnly(r, result) ==
  IF ~HasNode(r, result.path) THEN [raised |-> FALSE, nodes |-> <<>>]
  ELSE [raised |-> FALSE, nodes |-> <<result.path>>]

\* getMatchedNodes(tree, result): the nodes are given by their paths
getMatchedNodes(r, result) ==
  IF ~HasNode(r, result.path) THEN [raised |-> FALSE, nodes |-> <<>>]
  ELSE matchedNodesLoop(r, result.path, 1, result.siblingsCount, <<result.path>>)

\* the captures of a result list, nested ones included
RECURSIVE AllCaptures(_)
AllCaptures(list) ==
  UNION {{list[i]} \cup AllCaptures(list[i].children) : i \in 1..Len(list)}

\* a MatchResult whose path resolves in no tree of the model
StrayResult ==
  [symbol |-> "G", path |-> <<MaxKids + 2>>, siblingsCount |-> 1, children |-> <<>>]

\* the client passes a capture of the preceding matchr, or a stray one, to
\* getMatchedNodes with the same tree
GetMatchedNodes ==
  /\ pc = "idle"
  /\ ci <= Len(script)
  /\ script[ci].api = "getMatchedNodes"
  /\ \E result \in {StrayResult} \cup
                    (IF ci > 1 /\ Returned(ci - 1) /\ results[ci - 1].api = "matchr"
                        /\ ~results[ci - 1].isNull
                     THEN AllCaptures(results[ci - 1].ret) ELSE {}) :
       LET got == getMatchedNodes(Tree, result)
       IN Finish(Result("getMatchedNodes", IF got.raised THEN "raised" ELSE "ok",
                        got.nodes, FALSE, <<result>>))

\* the other components when they take no part in a run
ParserIdle == input = <<>> /\ tokens = <<>> /\ parsed = <<>>

RegistryIdle == contexts = <<>> /\ defined = <<>>

TreeIdle == heap = <<>> /\ thrown = <<>>

(***************************************************************************)
(* Inputs: the target trees and the scripts of calls.                      *)
(***************************************************************************)
Syms == {"A", "B"}

Leaves == {Leaf(s) : s \in Syms}

\* a first child with up to MaxInner children of its own
Narrow == {Node(s, 0, k) : s \in Syms, k \in SeqUpTo(Leaves, MaxInner)}

Trees ==
  {Leaf(s) : s \in Syms}
  \cup {Node(s, 0, <<f>> \o rest) :
          s \in Syms, f \in Narrow, rest \in SeqUpTo(Leaves, MaxKids - 1)}

FlatTrees == {t \in Trees : \A i \in 1..Len(t.kids) : t.kids[i].kids = <<>>}

\* single nodes carrying a surface
ValSyms == Syms \cup {"SEMTREX_VALUE_SET"}

ValTrees == {Node(s, v, <<>>) : s \in ValSyms, v \in 1..MaxVal}

SymAtoms == {Lit(s) : s \in Syms}

Atoms == SymAtoms \cup {AnyP}

One(api, pat, tree) == <<CallOf(api, pat, tree)>>

\* groups
GroupBodies ==
  {Lit("A"), Plus(Lit("A")), Star(Lit("A")), Star(AnyP), Quest(Lit("B")),
   SeqP(<<Lit("A"), Lit("B")>>), SeqP(<<AnyP, AnyP>>), NotP(Lit("B"))}

GroupPats ==
  {GroupP("G", x) : x \in GroupBodies}
  \cup {LitD("A", GroupP("G", x)) : x \in GroupBodies}
  \cup {LitD("A", SeqP(<<GroupP("G", Lit("A")), GroupP("H", y)>>)) :
          y \in {Lit("B"), NotP(Lit("B")), Quest(Lit("B"))}}
  \cup {LitD("A", GroupP("G", LitD("A", SeqP(<<Lit("A"), NotP(Lit("B"))>>)))),
        LitD("A", GroupP("G", SeqP(<<GroupP("H", Lit("A")), AnyP>>)))}

GroupScripts == {One("matchr", p, t) : p \in GroupPats, t \in Trees}

\* sequences of symbol atoms under a root symbol
SeqPats ==
  {LitD(a, c) : a \in Syms, c \in SymAtoms}
  \cup {LitD(a, SeqP(cs)) :
          a \in Syms, cs \in UNION {[1..m -> SymAtoms] : m \in 2..MaxSeq}}

SeqScripts == {One("match", p, t) : p \in SeqPats, t \in Trees}

\* descent
DescentPats ==
  {LitD(a, LitD(b, Lit("B"))) : a \in Syms, b \in Syms}
  \cup {DescendP(Lit(a)) : a \in Syms}
  \cup {LitD("A", DescendP(Lit("B")))}

DescentScripts == {One("match", p, t) : p \in DescentPats, t \in Trees}

\* quantifiers over one atom
QuantPats ==
  {LitD(p, Star(x)) : p \in Syms, x \in Atoms}
  \cup {LitD(p, Plus(x)) : p \in Syms, x \in Atoms}

QuantScripts == {One("match", p, t) : p \in QuantPats, t \in FlatTrees}

\* quantifiers over bodies that can match without consuming a node
LoopPats ==
  {Star(Star(Lit("A"))), Plus(Quest(Lit("A"))), Star(NotP(Lit("A"))),
   LitD("A", Star(Star(Lit("A")))), Star(NotP(Star(AnyP)))}

LoopScripts == {One("match", p, t) : p \in LoopPats, t \in FlatTrees}

\* walks
WalkPats ==
  {WalkP(Lit(x)) : x \in Syms}
  \cup {LitD("A", LitD(p, WalkP(Lit(x)))) : p \in Syms, x \in Syms}
  \cup {WalkP(LitD("A", Lit("B")))}

WalkScripts == {One("match", p, t) : p \in WalkPats, t \in Trees}

\* value literals
ValuePats ==
  {ValP(s, v) : s \in ValSyms, v \in 1..2}
  \cup {ValNotP(s, v) : s \in ValSyms, v \in 1..2}
  \cup {ValSetP(s, <<1, 2>>) : s \in ValSyms}
  \cup {ValNotSetP(s, <<1, 2>>) : s \in ValSyms}

ValueScripts == {One("match", p, t) : p \in ValuePats, t \in ValTrees}

\* match and matchr on the same input
BothPats ==
  {LitD("A", SeqP(<<GroupP("G", Lit("A")), Star(AnyP)>>)),
   LitD("A", OrP(Lit("A"), GroupP("G", Lit("B")))),
   GroupP("G", WalkP(Lit("B"))),
   LitD("A", SeqP(<<NotP(Lit("B")), GroupP("G", AnyP)>>)),
   LitNotSet(<<"A", "B">>), LitSet(<<"A", "B">>), LitNot("A"),
   Star(Star(Lit("A")))}

BothScripts ==
  {<<CallOf("match", p, t), CallOf("matchr", p, t)>> : p \in BothPats, t \in Trees}

\* a pattern and its double negation
PlainPats ==
  Atoms
  \cup {LitNot("A"), LitD("A", Lit("B")), LitD("A", Plus(Lit("A"))),
        Quest(Lit("A")), Star(Lit("A")), OrP(Lit("A"), Lit("B")),
        SeqP(<<Lit("A"), Lit("B")>>), WalkP(Lit("B")), NotP(Lit("A")),
        LitD("A", SeqP(<<NotP(Lit("A")), AnyP>>)), DescendP(Lit("B")),
        LitD("A", WalkP(Lit("B"))), Star(Star(Lit("A")))}

NotNotScripts ==
  {<<CallOf("match", NotP(NotP(x)), t), CallOf("match", x, t)>> :
     x \in PlainPats, t \in Trees}

\* matchr, then getMatchedNodes on one of its captures
NodesPats ==
  {LitD("A", GroupP("G", x)) :
     x \in {Lit("A"), SeqP(<<AnyP, AnyP>>), SeqP(<<Lit("A"), Lit("B")>>),
            Star(AnyP), WalkP(Lit("B")), OrP(Lit("B"), SeqP(<<AnyP, AnyP>>)),
            SeqP(<<GroupP("H", AnyP), AnyP>>),
            SeqP(<<AnyP, GroupP("H", SeqP(<<AnyP, AnyP>>))>>)}}
  \cup {GroupP("G", LitD("A", GroupP("H", SeqP(<<AnyP, AnyP>>)))),
        LitD("A", SeqP(<<GroupP("G", Lit("A")), GroupP("H", NotP(Lit("B")))>>)),
        LitD("A", LitD("A", GroupP("G", WalkP(Lit("B")))))}

NodesScripts ==
  {<<CallOf("matchr", p, t), CallOf("getMatchedNodes", p, t)>> :
     p \in NodesPats, t \in Trees}

\* a negated atom followed by another atom, below a root
NotSeqPats ==
  {LitD(p, SeqP(<<NotP(Lit(a)), y>>)) : p \in Syms, a \in Syms, y \in Atoms}

NotSeqScripts == {One("match", p, t) : p \in NotSeqPats, t \in FlatTrees}

\* a sequence whose first element descends: /A/(x/body,y)
NestedBodies ==
  UNION {{Lit(s), Quest(Lit(s)), Star(Lit(s))} : s \in Syms}

NestedSeqPats ==
  {LitD("A", SeqP(<<LitD("A", b), Lit(y)>>)) : b \in NestedBodies, y \in Syms}

NestedSeqScripts ==
  {One("match", p, t) : p \in NestedSeqPats, t \in {u \in Trees : Len(u.kids) <= 2}}

\* groups inside the body of a negation
NotGroupPats ==
  {NotP(GroupP("N", Lit("B"))),
   NotP(NotP(GroupP("N", Lit("A")))),
   GroupP("G", NotP(GroupP("N", Lit("B")))),
   OrP(NotP(GroupP("N", Lit("A"))), GroupP("G", Lit("A"))),
   LitD("A", SeqP(<<NotP(GroupP("N", Lit("B"))), GroupP("G", AnyP)>>)),
   LitD("A", GroupP("G", SeqP(<<NotP(GroupP("N", Lit("A"))), AnyP>>)))}

NotGroupScripts == {One("matchr", p, t) : p \in NotGroupPats, t \in FlatTrees}

\* a walk whose body is a group
WalkGroupScripts ==
  {One("matchr", WalkP(GroupP("G", Lit(x))), t) : x \in Syms, t \in Trees}

\* the same call on a target that is a root and on the same target attached
\* as the first child of a parent, with a sibling after it
Host(t) == Node("A", 0, <<t, Leaf("B")>>)

AttachedPats ==
  {Lit("A"), SeqP(<<Lit("A"), Lit("B")>>), LitD("A", Lit("B")), WalkP(Lit("B")),
   GroupP("G", Lit("A")), LitD("A", GroupP("G", AnyP))}

AttachedScripts ==
  {<<CallOf(api, p, t), CallAt(api, p, Host(t), <<1>>)>> :
     api \in {"match", "matchr"}, p \in AttachedPats,
     t \in {u \in FlatTrees : Len(u.kids) <= 1}}

\* groups completed before a later element, an alternative or a walk step fails
BranchGroupPats ==
  {LitD("A", OrP(SeqP(<<GroupP("G", Lit("A")), Lit("B")>>), GroupP("H", Lit("A")))),
   LitD("A", GroupP("G", SeqP(<<GroupP("H", Lit("A")), Quest(Lit("B"))>>))),
   WalkP(SeqP(<<GroupP("G", Lit("A")), Lit("B")>>))}

BranchGroupScripts == {One("matchr", p, t) : p \in BranchGroupPats, t \in Trees}

\* an alternation in both orders, then each of its sides alone
OrOperands ==
  {Lit("A"), SeqP(<<Lit("A"), Lit("B")>>), LitD("A", Lit("B")), NotP(Lit("A")),
   Quest(Lit("B")), WalkP(Lit("B")), Star(Star(AnyP))}

OrScripts ==
  {<<CallOf("match", OrP(x, y), t), CallOf("match", OrP(y, x), t),
     CallOf("match", x, t), CallOf("match", y, t)>> :
     x \in OrOperands, y \in OrOperands,
     t \in {u \in FlatTrees : Len(u.kids) <= 1}}

Scripts ==
  OrScripts \cup BranchGroupScripts \cup AttachedScripts \cup WalkGroupScripts \cup NotGroupScripts \cup NestedSeqScripts \cup NotSeqScripts \cup NodesScripts \cup GroupScripts \cup SeqScripts \cup DescentScripts \cup QuantScripts
  \cup LoopScripts \cup WalkScripts \cup ValueScripts \cup BothScripts
  \cup NotNotScripts

Init ==
  /\ script \in Scripts
  /\ ci = 1
  /\ results = <<>>
  /\ nfa = [start |-> NoState, sts |-> <<>>, gid |-> 0]
  /\ frames = <<>>
  /\ pc = "idle"
  /\ fsa = [groupIdCounter |-> 0, matchState |-> matchState]
  /\ ParserIdle /\ RegistryIdle /\ TreeIdle

Next ==
  \/ Call
  \/ StepMatch
  \/ StepNullCursor
  \/ StepSymbol
  \/ StepValue
  \/ StepAny
  \/ StepSplit
  \/ StepGroupOpen
  \/ StepGroupClose
  \/ StepDescend
  \/ StepWalk
  \/ StepNot
  \/ NotReturn
  \/ Return
  \/ GetMatchedNodes

Spec == Init /\ [][Next]_vars

(***************************************************************************)
(* The definition registry (sem-table: SemTable; base-defs:                *)
(* registerBaseDefs).  A Map is the sequence of its entries in insertion   *)
(* order; setting an existing key replaces the entry where it stands.  A   *)
(* label is a sequence of characters; the built-in labels are kept whole.  *)
(***************************************************************************)
STRUCTURE == 1
SYMBOL == 2
SYS_CONTEXT == 0

sid(context, semtype, id) == [context |-> context, semtype |-> semtype, id |-> id]

NULL_STRUCTURE == sid(0, STRUCTURE, 0)

\* Map.has / Map.set on a sequence of entries keyed by id
mapHas(entries, id) == \E i \in 1..Len(entries) : entries[i].id = id

mapSet(entries, id, def) ==
  IF mapHas(entries, id)
  THEN [i \in 1..Len(entries) |-> IF entries[i].id = id THEN def ELSE entries[i]]
  ELSE Append(entries, def)

hasContext(cs, context) == \E k \in 1..Len(cs) : cs[k].context = context

storeAt(cs, context) == CHOOSE k \in 1..Len(cs) : cs[k].context = context

ensureContext(cs, context) ==
  IF hasContext(cs, context) THEN cs
  ELSE Append(cs, [context |-> context, symbols |-> <<>>, structures |-> <<>>,
                   nextSymbolId |-> 1, nextStructureId |-> 1])

\* defineSymbol / defineStructure: [contexts, id] after the call
defineSymbol(cs, context, structureId, label) ==
  LET cs1 == ensureContext(cs, context)
      k == storeAt(cs1, context)
      id == cs1[k].nextSymbolId
  IN [contexts |-> [cs1 EXCEPT
                      ![k].nextSymbolId = id + 1,
                      ![k].symbols = mapSet(cs1[k].symbols, id,
                                            [id |-> id, label |-> label,
                                             structure |-> structureId])],
      id |-> sid(context, SYMBOL, id)]

defineStructure(cs, context, label, parts) ==
  LET cs1 == ensureContext(cs, context)
      k == storeAt(cs1, context)
      id == cs1[k].nextStructureId
  IN [contexts |-> [cs1 EXCEPT
                      ![k].nextStructureId = id + 1,
                      ![k].structures = mapSet(cs1[k].structures, id,
                                               [id |-> id, label |-> label,
                                                parts |-> parts])],
      id |-> sid(context, STRUCTURE, id)]

\* symbolByName: the first hit over the contexts and their symbols, in order
RECURSIVE firstLabelled(_, _, _)
firstLabelled(entries, i, name) ==
  IF i > Len(entries) THEN 0
  ELSE IF entries[i].label = name THEN entries[i].id
  ELSE firstLabelled(entries, i + 1, name)

RECURSIVE symbolByNameFrom(_, _, _)
symbolByNameFrom(cs, k, name) ==
  IF k > Len(cs) THEN [found |-> FALSE]
  ELSE LET id == firstLabelled(cs[k].symbols, 1, name)
       IN IF id # 0
          THEN [found |-> TRUE, sym |-> sid(cs[k].context, SYMBOL, id)]
          ELSE symbolByNameFrom(cs, k + 1, name)

symbolByName(cs, name) == symbolByNameFrom(cs, 1, name)

\* base-defs: the fixed ids
STRUCTURES ==
  <<[id |-> 1, label |-> <<"BIT">>], [id |-> 2, label |-> <<"INTEGER">>],
    [id |-> 3, label |-> <<"FLOAT">>], [id |-> 4, label |-> <<"CHAR">>],
    [id |-> 5, label |-> <<"CSTRING">>], [id |-> 6, label |-> <<"SYMBOL">>],
    [id |-> 7, label |-> <<"BLOB">>], [id |-> 8, label |-> <<"INTEGER64">>],
    [id |-> 9, label |-> <<"TREE">>], [id |-> 10, label |-> <<"TREE_PATH">>]>>

SYMBOLS ==
  <<[id |-> 1, label |-> <<"DEFINITIONS">>, structure |-> 0],
    [id |-> 2, label |-> <<"STRUCTURES">>, structure |-> 0],
    [id |-> 3, label |-> <<"SYMBOLS">>, structure |-> 0],
    [id |-> 4, label |-> <<"ASCII_CHARS">>, structure |-> 5],
    [id |-> 5, label |-> <<"ASCII_CHAR">>, structure |-> 4],
    [id |-> 20, label |-> <<"SEMTREX_SYMBOL_LITERAL">>, structure |-> 9],
    [id |-> 21, label |-> <<"SEMTREX_SYMBOL_LITERAL_NOT">>, structure |-> 9],
    [id |-> 22, label |-> <<"SEMTREX_SYMBOL">>, structure |-> 6],
    [id |-> 23, label |-> <<"SEMTREX_SYMBOL_SET">>, structure |-> 9],
    [id |-> 24, label |-> <<"SEMTREX_SYMBOL_ANY">>, structure |-> 9],
    [id |-> 25, label |-> <<"SEMTREX_SEQUENCE">>, structure |-> 9],
    [id |-> 26, label |-> <<"SEMTREX_OR">>, structure |-> 9],
    [id |-> 27, label |-> <<"SEMTREX_NOT">>, structure |-> 9],
    [id |-> 28, label |-> <<"SEMTREX_ZERO_OR_MORE">>, structure |-> 9],
    [id |-> 29, label |-> <<"SEMTREX_ONE_OR_MORE">>, structure |-> 9],
    [id |-> 30, label |-> <<"SEMTREX_ZERO_OR_ONE">>, structure |-> 9],
    [id |-> 31, label |-> <<"SEMTREX_VALUE_LITERAL">>, structure |-> 9],
    [id |-> 32, label |-> <<"SEMTREX_VALUE_LITERAL_NOT">>, structure |-> 9],
    [id |-> 33, label |-> <<"SEMTREX_VALUE_SET">>, structure |-> 9],
    [id |-> 34, label |-> <<"SEMTREX_GROUP">>, structure |-> 9],
    [id |-> 35, label |-> <<"SEMTREX_DESCEND">>, structure |-> 9],
    [id |-> 36, label |-> <<"SEMTREX_WALK">>, structure |-> 9],
    [id |-> 40, label |-> <<"SEMTREX_MATCH">>, structure |-> 9],
    [id |-> 41, label |-> <<"SEMTREX_MATCH_SYMBOL">>, structure |-> 6],
    [id |-> 42, label |-> <<"SEMTREX_MATCH_PATH">>, structure |-> 10],
    [id |-> 43, label |-> <<"SEMTREX_MATCH_SIBLINGS_COUNT">>, structure |-> 2]>>

\* faulty variant: the counter is left where it was
bumpNext_keep(next, id) == next

\* "if (sid.id >= store.nextStructureId) store.nextStructureId = sid.id + 1"
bumpNext(next, id) == IF id >= next THEN id + 1 ELSE next

\* registerBaseDefs: the loops over structDefs and symDefs.  Every base id is
\* of SYS_CONTEXT, so each loop works on that one store: setAll is what its
\* "store.<map>.set(id, def)" lines leave in the map, bumpAll what its
\* "if (id >= next) next = id + 1" lines leave in the counter.
RECURSIVE setAll(_, _, _)
setAll(entries, defs, i) ==
  IF i > Len(defs) THEN entries
  ELSE setAll(mapSet(entries, defs[i].id, defs[i]), defs, i + 1)

RECURSIVE bumpAll(_, _, _)
bumpAll(next, defs, i) ==
  IF i > Len(defs) THEN next
  ELSE bumpAll(bumpNext(next, defs[i].id), defs, i + 1)

structDefs == [i \in 1..Len(STRUCTURES) |->
                 [id |-> STRUCTURES[i].id, label |-> STRUCTURES[i].label, parts |-> <<>>]]

symDefs == [i \in 1..Len(SYMBOLS) |->
              [id |-> SYMBOLS[i].id, label |-> SYMBOLS[i].label,
               structure |-> sid(SYS_CONTEXT, STRUCTURE, SYMBOLS[i].structure)]]

registerBaseDefs(cs) ==
  LET cs1 == ensureContext(cs, SYS_CONTEXT)
      k == storeAt(cs1, SYS_CONTEXT)
  IN [cs1 EXCEPT
        ![k].structures = setAll(cs1[k].structures, structDefs, 1),
        ![k].nextStructureId = bumpAll(cs1[k].nextStructureId, structDefs, 1),
        ![k].symbols = setAll(cs1[k].symbols, symDefs, 1),
        ![k].nextSymbolId = bumpAll(cs1[k].nextSymbolId, symDefs, 1)]

createBaseSemTable == registerBaseDefs(<<>>)

\* the matcher when it takes no part in a run
MatcherIdle ==
  /\ script = <<>> /\ ci = 1 /\ results = <<>>
  /\ nfa = [start |-> NoState, sts |-> <<>>, gid |-> 0]
  /\ frames = <<>> /\ pc = "off"
  /\ fsa = [groupIdCounter |-> 0, matchState |-> matchState]

\* contexts and labels the client defines in
RegContexts == 0..MaxContext

RegLabels == {<<"X">>}

\* was the id stored in that context's map before the call
storedBefore(cs, context, kind, id) ==
  /\ hasContext(cs, context)
  /\ mapHas(IF kind = "symbol" THEN cs[storeAt(cs, context)].symbols
            ELSE cs[storeAt(cs, context)].structures, id)

Defined(kind, context, id, cs) ==
  [kind |-> kind, context |-> context, id |-> id,
   present |-> storedBefore(cs, context, kind, id)]

RegisterBaseDefs ==
  /\ Len(defined) < MaxCalls
  /\ contexts' = registerBaseDefs(contexts)
  /\ defined' = Append(defined, [kind |-> "register", context |-> SYS_CONTEXT,
                                 id |-> 0, present |-> FALSE])
  /\ UNCHANGED <<matcherVars, parserVars, treeVars>>

DefineSymbol ==
  /\ Len(defined) < MaxCalls
  /\ \E context \in RegContexts, label \in RegLabels :
       LET d == defineSymbol(contexts, context, NULL_STRUCTURE, label)
       IN /\ contexts' = d.contexts
          /\ defined' = Append(defined, Defined("symbol", context, d.id.id, contexts))
  /\ UNCHANGED <<matcherVars, parserVars, treeVars>>

DefineStructure ==
  /\ Len(defined) < MaxCalls
  /\ \E context \in RegContexts, label \in RegLabels :
       LET d == defineStructure(contexts, context, label, <<>>)
       IN /\ contexts' = d.contexts
          /\ defined' = Append(defined, Defined("structure", context, d.id.id, contexts))
  /\ UNCHANGED <<matcherVars, parserVars, treeVars>>

\* new SemTable()
InitRegistry ==
  /\ contexts = <<>>
  /\ defined = <<>>
  /\ MatcherIdle /\ ParserIdle /\ TreeIdle

NextRegistry ==
  \/ RegisterBaseDefs
  \/ DefineSymbol
  \/ DefineStructure

SpecRegistry == InitRegistry /\ [][NextRegistry]_vars

(***************************************************************************)
(* The pattern parser (semtrex-parser.ts).  A string is the sequence of    *)
(* its characters and an offset counts from 0, as in the source.  The      *)
(* inputs of the model hold no quote and no minus sign, so the branches of *)
(* the tokenizer for character, string and negative literals are left out  *)
(* and such a character is an unexpected one.                              *)
(***************************************************************************)
Whitespace == {" ", "\t", "\n", "\r"}

Digits == {"0", "1", "2", "3", "4", "5", "6", "7", "8", "9"}

LabelStart ==
  {"a", "b", "c", "d", "e", "f", "g", "h", "i", "j", "k", "l", "m",
   "n", "o", "p", "q", "r", "s", "t", "u", "v", "w", "x", "y", "z",
   "A", "B", "C", "D", "E", "F", "G", "H", "I", "J", "K", "L", "M",
   "N", "O", "P", "Q", "R", "S", "T", "U", "V", "W", "X", "Y", "Z", "_"}

LabelPart == LabelStart \cup Digits

singles(c) ==
  CASE c = "/" -> "SLASH"
    [] c = "%" -> "PERCENT"
    [] c = "." -> "DOT"
    [] c = "," -> "COMMA"
    [] c = "|" -> "PIPE"
    [] c = "*" -> "STAR"
    [] c = "+" -> "PLUS"
    [] c = "?" -> "QUESTION"
    [] c = "~" -> "TILDE"
    [] c = "(" -> "LPAREN"
    [] c = ")" -> "RPAREN"
    [] c = "{" -> "LBRACE"
    [] c = "}" -> "RBRACE"
    [] c = "<" -> "LANGLE"
    [] c = ">" -> "RANGLE"
    [] c = ":" -> "COLON"
    [] OTHER -> "none"

Token(type, value, pos) == [type |-> type, value |-> value, pos |-> pos]

\* input[i], for an offset i from 0
charAt(in, i) == in[i + 1]

\* input.slice(i, j)
slice(in, i, j) == SubSeq(in, i + 1, j)

\* "while (j < input.length && <input[j] in the class>) j++"
RECURSIVE scan(_, _, _)
scan(in, j, class) ==
  IF j < Len(in) /\ charAt(in, j) \in class THEN scan(in, j + 1, class) ELSE j

\* a thrown SemtrexParseError
SemtrexParseError(pos) == [ok |-> FALSE, errPos |-> pos]

\* the tokenizer's loop from offset i, with the tokens pushed so far
RECURSIVE tokenizeFrom(_, _, _)
tokenizeFrom(in, i, toks) ==
  IF i >= Len(in)
  THEN [ok |-> TRUE, tokens |-> Append(toks, Token("EOF", <<>>, i))]
  ELSE
    LET c == charAt(in, i) IN
    IF c \in Whitespace THEN tokenizeFrom(in, i + 1, toks)
    ELSE IF c = "!" /\ i + 1 < Len(in) /\ charAt(in, i + 1) = "="
    THEN tokenizeFrom(in, i + 2,
                      toks \o <<Token("BANG", <<"!">>, i), Token("EQ", <<"=">>, i + 1)>>)
    ELSE IF c = "!" THEN tokenizeFrom(in, i + 1, Append(toks, Token("BANG", <<"!">>, i)))
    ELSE IF c = "=" THEN tokenizeFrom(in, i + 1, Append(toks, Token("EQ", <<"=">>, i)))
    ELSE IF singles(c) # "none"
    THEN tokenizeFrom(in, i + 1, Append(toks, Token(singles(c), <<c>>, i)))
    ELSE IF c \in Digits
    THEN LET j == scan(in, i, Digits) IN
         IF j < Len(in) /\ charAt(in, j) = "." /\ j + 1 < Len(in)
            /\ charAt(in, j + 1) \in Digits
         THEN LET j2 == scan(in, j + 1, Digits)
              IN tokenizeFrom(in, j2, Append(toks, Token("FLOAT", slice(in, i, j2), i)))
         ELSE tokenizeFrom(in, j, Append(toks, Token("INT", slice(in, i, j), i)))
    ELSE IF c \in LabelStart
    THEN LET j == scan(in, i + 1, LabelPart)
         IN tokenizeFrom(in, j, Append(toks, Token("LABEL", slice(in, i, j), i)))
    ELSE SemtrexParseError(i)

tokenize(in) == tokenizeFrom(in, 0, <<>>)

\* SYMBOLS.<label>
sysSymbol(id) == sid(SYS_CONTEXT, SYMBOL, id)

SYM(label) ==
  sysSymbol(SYMBOLS[CHOOSE i \in 1..Len(SYMBOLS) : SYMBOLS[i].label = <<label>>].id)

\* "child.parent = node" for each of the children handed over: a parent
\* pointer is <<>> (null) or holds the symbol of the node it points to
adopt(children, symbol) ==
  [i \in 1..Len(children) |-> [children[i] EXCEPT !.parent = <<symbol>>]]

\* a node of the parsed tree, made with parent null and given its children
SemNode(symbol, surface, children) ==
  [symbol |-> symbol, surface |-> surface, parent |-> <<>>,
   children |-> adopt(children, symbol)]

NoSurface == [kind |-> "null"]

\* faulty variant: the node is returned without the children attached to it
newEmpty_bare(symbol, children) == SemNode(symbol, NoSurface, <<>>)

newEmpty(symbol, children) == SemNode(symbol, NoSurface, children)

newNode(symbol, s, children) == SemNode(symbol, [kind |-> "symbol", sym |-> s], children)

newSym(symbol, s) == SemNode(symbol, [kind |-> "symbol", sym |-> s], <<>>)

newInt(symbol, n) == SemNode(symbol, [kind |-> "int", int |-> n], <<>>)

\* a float surface, written as its digits
newFloat(symbol, digits) == SemNode(symbol, [kind |-> "float", digits |-> digits], <<>>)

digitValue(c) ==
  CASE c = "0" -> 0 [] c = "1" -> 1 [] c = "2" -> 2 [] c = "3" -> 3 [] c = "4" -> 4
    [] c = "5" -> 5 [] c = "6" -> 6 [] c = "7" -> 7 [] c = "8" -> 8 [] c = "9" -> 9

\* parseInt(value, 10) of a run of digits
RECURSIVE parseInt(_)
parseInt(value) ==
  IF value = <<>> THEN 0
  ELSE 10 * parseInt(SubSeq(value, 1, Len(value) - 1)) + digitValue(value[Len(value)])

\* what a parsing method hands back: the node it built and the parser's pos
\* after it (an index into the tokens, from 1), or the error it threw
Parsed(nd, p) == [ok |-> TRUE, node |-> nd, pos |-> p]

\* expect(type)
expect(ts, p, type) ==
  IF ts[p].type # type THEN SemtrexParseError(ts[p].pos)
  ELSE [ok |-> TRUE, tok |-> ts[p], pos |-> p + 1]

\* faulty variant: the error carries the start of the pattern
resolveSymbol_atStart(sem, name, pos) ==
  LET sym == symbolByName(sem, name)
  IN IF ~sym.found THEN SemtrexParseError(0) ELSE [ok |-> TRUE, sym |-> sym.sym]

resolveSymbol(sem, name, pos) ==
  LET sym == symbolByName(sem, name)
  IN IF ~sym.found THEN SemtrexParseError(pos) ELSE [ok |-> TRUE, sym |-> sym.sym]

\* faulty variant: a quantifier is never taken
maybePostfix_none(ts, r) == r

\* maybePostfix, applied to what parseGroup or parseAtom handed back
maybePostfix(ts, r) ==
  IF ~r.ok THEN r
  ELSE LET t == ts[r.pos] IN
       IF t.type = "STAR"
       THEN Parsed(newEmpty(SYM("SEMTREX_ZERO_OR_MORE"), <<r.node>>), r.pos + 1)
       ELSE IF t.type = "PLUS"
       THEN Parsed(newEmpty(SYM("SEMTREX_ONE_OR_MORE"), <<r.node>>), r.pos + 1)
       ELSE IF t.type = "QUESTION"
       THEN Parsed(newEmpty(SYM("SEMTREX_ZERO_OR_ONE"), <<r.node>>), r.pos + 1)
       ELSE r

\* parseValueInto: the child it adds
parseValueInto(ts, p, sym) ==
  LET t == ts[p] IN
  IF t.type = "INT" THEN Parsed(newInt(sym, parseInt(t.value)), p + 1)
  ELSE IF t.type = "FLOAT" THEN Parsed(newFloat(sym, t.value), p + 1)
  ELSE SemtrexParseError(t.pos)

\* "while (this.match(COMMA)) this.parseValueInto(setNode, sym)"
RECURSIVE valueSetRest(_, _, _, _)
valueSetRest(ts, p, sym, kids) ==
  IF ts[p].type # "COMMA" THEN Parsed(kids, p)
  ELSE LET v == parseValueInto(ts, p + 1, sym)
       IN IF ~v.ok THEN v ELSE valueSetRest(ts, v.pos, sym, Append(kids, v.node))

\* parseValueLiteral, from the token after the label
parseValueLiteral(ts, p, sym) ==
  LET isNot == ts[p].type = "BANG"
      p1 == IF isNot THEN p + 1 ELSE p
      eq == expect(ts, p1, "EQ")
      vlSym == IF isNot THEN SYM("SEMTREX_VALUE_LITERAL_NOT") ELSE SYM("SEMTREX_VALUE_LITERAL")
  IN IF ~eq.ok THEN eq
     ELSE IF ts[eq.pos].type = "LBRACE"
     THEN LET v == parseValueInto(ts, eq.pos + 1, sym) IN
          IF ~v.ok THEN v
          ELSE LET vs == valueSetRest(ts, v.pos, sym, <<v.node>>) IN
               IF ~vs.ok THEN vs
               ELSE LET close == expect(ts, vs.pos, "RBRACE") IN
                    IF ~close.ok THEN close
                    ELSE Parsed(newEmpty(vlSym, <<newEmpty(SYM("SEMTREX_VALUE_SET"), vs.node)>>),
                                close.pos)
     ELSE LET v == parseValueInto(ts, eq.pos, sym)
          IN IF ~v.ok THEN v ELSE Parsed(newEmpty(vlSym, <<v.node>>), v.pos)

\* "while (this.match(COMMA)) { expect(LABEL); newSym(setNode, ..., resolveSymbol(..)) }"
RECURSIVE symbolSetRest(_, _, _, _)
symbolSetRest(ts, p, sem, kids) ==
  IF ts[p].type # "COMMA" THEN Parsed(kids, p)
  ELSE LET nextLabel == expect(ts, p + 1, "LABEL") IN
       IF ~nextLabel.ok THEN nextLabel
       ELSE LET s == resolveSymbol(sem, nextLabel.tok.value, nextLabel.tok.pos)
            IN IF ~s.ok THEN s
               ELSE symbolSetRest(ts, nextLabel.pos, sem,
                                  Append(kids, newSym(SYM("SEMTREX_SYMBOL"), s.sym)))

parseSymbolSet(ts, p, sem, isNot) ==
  LET open == expect(ts, p, "LBRACE")
      litSym == IF isNot THEN SYM("SEMTREX_SYMBOL_LITERAL_NOT") ELSE SYM("SEMTREX_SYMBOL_LITERAL")
  IN IF ~open.ok THEN open
     ELSE LET firstLabel == expect(ts, open.pos, "LABEL") IN
          IF ~firstLabel.ok THEN firstLabel
          ELSE LET s == resolveSymbol(sem, firstLabel.tok.value, firstLabel.tok.pos) IN
               IF ~s.ok THEN s
               ELSE LET rest == symbolSetRest(ts, firstLabel.pos, sem,
                                              <<newSym(SYM("SEMTREX_SYMBOL"), s.sym)>>) IN
                    IF ~rest.ok THEN rest
                    ELSE LET close == expect(ts, rest.pos, "RBRACE") IN
                         IF ~close.ok THEN close
                         ELSE Parsed(newEmpty(litSym,
                                              <<newEmpty(SYM("SEMTREX_SYMBOL_SET"), rest.node)>>),
                                     close.pos)

\* The methods of Parser that call one another, as one operator: rule names
\* the method (parseElement, parseWalk, parseNot, parseGroup, parseAtom,
\* parseSymbolOrValue, parseNegatedSymbol, parseOrExpr, parseSeqExpr), p is the
\* parser's pos on entry, and acc is what a loop has built so far (the left
\* operand in orRest, the children in seqRest).
RECURSIVE parseRule(_, _, _, _, _)
parseRule(rule, ts, p, sem, acc) ==
  CASE rule = "parseElement" ->
         LET t == ts[p] IN
         IF t.type = "PERCENT" THEN parseRule("parseWalk", ts, p, sem, <<>>)
         ELSE IF t.type = "TILDE" THEN parseRule("parseNot", ts, p, sem, <<>>)
         ELSE IF t.type = "LANGLE"
         THEN maybePostfix(ts, parseRule("parseGroup", ts, p, sem, <<>>))
         ELSE maybePostfix(ts, parseRule("parseAtom", ts, p, sem, <<>>))
    [] rule = "parseWalk" ->
         LET e == expect(ts, p, "PERCENT") IN
         IF ~e.ok THEN e
         ELSE LET child == parseRule("parseElement", ts, e.pos, sem, <<>>)
              IN IF ~child.ok THEN child
                 ELSE Parsed(newEmpty(SYM("SEMTREX_WALK"), <<child.node>>), child.pos)
    [] rule = "parseNot" ->
         LET e == expect(ts, p, "TILDE") IN
         IF ~e.ok THEN e
         ELSE LET child == parseRule("parseElement", ts, e.pos, sem, <<>>)
              IN IF ~child.ok THEN child
                 ELSE Parsed(newEmpty(SYM("SEMTREX_NOT"), <<child.node>>), child.pos)
    [] rule = "parseGroup" ->
         LET open == expect(ts, p, "LANGLE") IN
         IF ~open.ok THEN open
         ELSE LET labelTok == expect(ts, open.pos, "LABEL") IN
         IF ~labelTok.ok THEN labelTok
         ELSE LET colon == expect(ts, labelTok.pos, "COLON") IN
         IF ~colon.ok THEN colon
         ELSE LET groupSym == resolveSymbol(sem, labelTok.tok.value, labelTok.tok.pos) IN
         IF ~groupSym.ok THEN groupSym
         ELSE LET body == parseRule("parseOrExpr", ts, colon.pos, sem, <<>>) IN
         IF ~body.ok THEN body
         ELSE LET close == expect(ts, body.pos, "RANGLE") IN
         IF ~close.ok THEN close
         ELSE Parsed(newNode(SYM("SEMTREX_GROUP"), groupSym.sym, <<body.node>>), close.pos)
    [] rule = "parseAtom" ->
         LET t == ts[p] IN
         IF t.type = "SLASH"
         THEN LET child == parseRule("parseElement", ts, p + 1, sem, <<>>)
              IN IF ~child.ok THEN child
                 ELSE Parsed(newEmpty(SYM("SEMTREX_DESCEND"), <<child.node>>), child.pos)
         ELSE IF t.type = "DOT" THEN Parsed(newEmpty(SYM("SEMTREX_SYMBOL_ANY"), <<>>), p + 1)
         ELSE IF t.type = "LPAREN"
         THEN LET inner == parseRule("parseOrExpr", ts, p + 1, sem, <<>>) IN
              IF ~inner.ok THEN inner
              ELSE LET close == expect(ts, inner.pos, "RPAREN")
                   IN IF ~close.ok THEN close ELSE Parsed(inner.node, close.pos)
         ELSE IF t.type = "BANG" THEN parseRule("parseNegatedSymbol", ts, p, sem, <<>>)
         ELSE IF t.type = "LABEL" THEN parseRule("parseSymbolOrValue", ts, p, sem, <<>>)
         ELSE IF t.type = "LBRACE" THEN parseSymbolSet(ts, p, sem, FALSE)
         ELSE SemtrexParseError(t.pos)
    [] rule = "parseSymbolOrValue" ->
         LET labelTok == ts[p]
             sym == resolveSymbol(sem, labelTok.value, labelTok.pos)
         IN IF ~sym.ok THEN sym
            ELSE IF ts[p + 1].type \in {"BANG", "EQ"}
            THEN parseValueLiteral(ts, p + 1, sym.sym)
            ELSE parseRule("descend", ts, p + 1, sem,
                           newEmpty(SYM("SEMTREX_SYMBOL_LITERAL"),
                                    <<newSym(SYM("SEMTREX_SYMBOL"), sym.sym)>>))
    [] rule = "parseNegatedSymbol" ->
         LET bang == expect(ts, p, "BANG") IN
         IF ~bang.ok THEN bang
         ELSE IF ts[bang.pos].type = "LBRACE" THEN parseSymbolSet(ts, bang.pos, sem, TRUE)
         ELSE LET labelTok == expect(ts, bang.pos, "LABEL") IN
              IF ~labelTok.ok THEN labelTok
              ELSE LET sym == resolveSymbol(sem, labelTok.tok.value, labelTok.tok.pos)
                   IN IF ~sym.ok THEN sym
                      ELSE parseRule("descend", ts, labelTok.pos, sem,
                                     newEmpty(SYM("SEMTREX_SYMBOL_LITERAL_NOT"),
                                              <<newSym(SYM("SEMTREX_SYMBOL"), sym.sym)>>))
    [] rule = "descend" ->
         \* "if (this.peek().type === SLASH) { ...; litNode.children.push(child) }"
         IF ts[p].type = "SLASH"
         THEN LET child == parseRule("parseElement", ts, p + 1, sem, <<>>)
              IN IF ~child.ok THEN child
                 ELSE Parsed([acc EXCEPT !.children = @ \o adopt(<<child.node>>, acc.symbol)],
                             child.pos)
         ELSE Parsed(acc, p)
    [] rule = "parseOrExpr" ->
         LET left == parseRule("parseSeqExpr", ts, p, sem, <<>>)
         IN IF ~left.ok THEN left ELSE parseRule("orRest", ts, left.pos, sem, left.node)
    [] rule = "orRest" ->
         \* "while (this.peek().type === PIPE) { ...; left = orNode }"
         IF ts[p].type # "PIPE" THEN Parsed(acc, p)
         ELSE LET right == parseRule("parseSeqExpr", ts, p + 1, sem, <<>>)
              IN IF ~right.ok THEN right
                 ELSE parseRule("orRest", ts, right.pos, sem,
                                newEmpty(SYM("SEMTREX_OR"), <<acc, right.node>>))
    [] rule = "parseSeqExpr" ->
         LET first == parseRule("parseElement", ts, p, sem, <<>>) IN
         IF ~first.ok THEN first
         ELSE IF ts[first.pos].type # "COMMA" THEN first
         ELSE parseRule("seqRest", ts, first.pos, sem, <<first.node>>)
    [] rule = "seqRest" ->
         \* "while (this.match(COMMA)) { next = parseElement(); children.push(next) }"
         IF ts[p].type # "COMMA" THEN Parsed(newEmpty(SYM("SEMTREX_SEQUENCE"), acc), p)
         ELSE LET next == parseRule("parseElement", ts, p + 1, sem, <<>>)
              IN IF ~next.ok THEN next
                 ELSE parseRule("seqRest", ts, next.pos, sem, Append(acc, next.node))

parseSiblings(ts, p, sem) == parseRule("parseOrExpr", ts, p, sem, <<>>)

\* Parser.parse
parse(ts, sem) ==
  LET slash == expect(ts, 1, "SLASH") IN
  IF ~slash.ok THEN slash
  ELSE LET result == parseSiblings(ts, slash.pos, sem) IN
       IF ~result.ok THEN result
       ELSE IF ts[result.pos].type # "EOF" THEN SemtrexParseError(ts[result.pos].pos)
       ELSE [ok |-> TRUE, node |-> result.node]

parseSemtrex(sem, in) ==
  LET toks == tokenize(in)
  IN IF ~toks.ok THEN toks ELSE parse(toks.tokens, sem)

(***************************************************************************)
(* Calls of parseSemtrex.  A pattern is written as a sequence of items, a  *)
(* label or a piece of punctuation, so that the offset of each of its      *)
(* labels is known from how the string was put together.                   *)
(***************************************************************************)
KnownLabels == {<<"A">>, <<"B">>, <<"C">>, <<"G">>}

\* labels no registry of the model defines; "Ax" starts like a defined one
UnknownLabels == {<<"X">>, <<"A", "x">>}

SlotLabels == {<<"A">>, <<"B">>, <<"X">>, <<"A", "x">>}

LastSlotLabels == {<<"C">>, <<"X">>}

GroupLabels == {<<"G">>, <<"X">>}

L(name) == [label |-> TRUE, text |-> name]

P(c) == [label |-> FALSE, text |-> <<c>>]

\* the well-formed patterns of the model
Shapes ==
  {<<P("/"), L(a)>> : a \in SlotLabels}
  \cup {<<P("/"), P("!"), L(a)>> : a \in SlotLabels}
  \cup {<<P("/"), P("%"), L(a)>> : a \in SlotLabels}
  \cup {<<P("/"), P("~"), L(a)>> : a \in SlotLabels}
  \cup {<<P("/"), P("/"), L(a)>> : a \in SlotLabels}
  \cup {<<P("/"), L(a), P("="), P("1")>> : a \in SlotLabels}
  \cup {<<P("/"), L(a), P("!"), P("="), P("1"), P("2")>> : a \in SlotLabels}
  \cup {<<P("/"), L(a), P("="), P("{"), P("1"), P(","), P("2"), P("}")>> : a \in SlotLabels}
  \cup {<<P("/"), P("."), P(","), L(a), P("?")>> : a \in SlotLabels}
  \cup UNION {{<<P("/"), L(a), P(","), L(b)>>,
               <<P("/"), L(a), P("|"), L(b)>>,
               <<P("/"), L(a), P(","), L(b), P("*")>>,
               <<P("/"), L(a), P("|"), L(b), P("+")>>,
               <<P("/"), P("("), L(a), P(","), L(b), P(")"), P("*")>>,
               <<P("/"), L(a), P("/"), L(b)>>,
               <<P("/"), P("{"), L(a), P(","), L(b), P("}")>>,
               <<P("/"), P("!"), P("{"), L(a), P(","), L(b), P("}")>>}
              : a \in SlotLabels, b \in SlotLabels}
  \cup UNION {{<<P("/"), P("<"), L(g), P(":"), L(a), P(">")>>,
               <<P("/"), P("<"), L(g), P(":"), L(a), P(","), P("."), P(">"), P("?")>>}
              : g \in GroupLabels, a \in SlotLabels}
  \cup UNION {{<<P("/"), L(a), P(","), L(b), P("|"), L(c)>>,
               <<P("/"), L(a), P("/"), P("("), L(b), P(","), L(c), P(")")>>}
              : a \in SlotLabels, b \in SlotLabels, c \in LastSlotLabels}

\* a pattern and whether a blank is written before each of its labels
Templates == {[items |-> s, spaced |-> sp] : s \in Shapes, sp \in BOOLEAN}

itemText(t, k) ==
  IF t.items[k].label /\ t.spaced THEN <<" ">> \o t.items[k].text ELSE t.items[k].text

\* the string of the first n items
RECURSIVE renderUpTo(_, _)
renderUpTo(t, n) == IF n = 0 THEN <<>> ELSE renderUpTo(t, n - 1) \o itemText(t, n)

render(t) == renderUpTo(t, Len(t.items))

\* the offset of the label that is item k
labelOffset(t, k) == Len(renderUpTo(t, k - 1)) + (IF t.spaced THEN 1 ELSE 0)

unknownItems(t) ==
  {k \in 1..Len(t.items) : t.items[k].label /\ t.items[k].text \in UnknownLabels}

firstUnknown(t) == CHOOSE k \in unknownItems(t) : \A k2 \in unknownItems(t) : k <= k2

ParserInputs == {render(t) : t \in Templates}

\* a registry with the known labels defined in one context
RECURSIVE defineAll(_, _, _)
defineAll(cs, context, labels) ==
  IF labels = <<>> THEN cs
  ELSE defineAll(defineSymbol(cs, context, NULL_STRUCTURE, Head(labels)).contexts,
                 context, Tail(labels))

ParserRegistries ==
  {defineAll(<<>>, SYS_CONTEXT, <<<<"A">>, <<"B">>, <<"C">>, <<"G">>>>),
   defineAll(createBaseSemTable, 1, <<<<"G">>, <<"C">>, <<"B">>, <<"A">>>>)}

\* parseSemtrex(sem, input), the one call of a run
ParseSemtrex ==
  /\ ParserIdle
  /\ \E in \in ParserInputs :
       LET toks == tokenize(in)
       IN /\ input' = in
          /\ tokens' = (IF toks.ok THEN toks.tokens ELSE <<>>)
          /\ parsed' = parseSemtrex(contexts, in)
  /\ UNCHANGED <<matcherVars, registryVars, treeVars>>

InitParser ==
  /\ contexts \in ParserRegistries
  /\ defined = <<>>
  /\ ParserIdle /\ MatcherIdle /\ TreeIdle

NextParser == ParseSemtrex

SpecParser == InitParser /\ [][NextParser]_vars

(***************************************************************************)
(* Tree mutation (tree.ts).  The heap holds the nodes created so far, a    *)
(* node being named by its place in it; NoNode is the null pointer.  The   *)
(* helpers on arrays count from 0, as the source does.                     *)
(***************************************************************************)
NoNode == 0

\* Array.indexOf: the first place of x, or -1
indexOf(arr, x) ==
  IF \E i \in 1..Len(arr) : arr[i] = x
  THEN (CHOOSE i \in 1..Len(arr) : arr[i] = x /\ \A j \in 1..(i - 1) : arr[j] # x) - 1
  ELSE -1

\* arr.splice(at, 1) for a place at of the array
spliceOut(arr, at) == SubSeq(arr, 1, at) \o SubSeq(arr, at + 2, Len(arr))

\* arr.splice(start, 0, x): a negative start counts from the end, at most to 0
spliceIn(arr, start, x) ==
  LET from == IF start < 0 THEN (IF Len(arr) + start < 0 THEN 0 ELSE Len(arr) + start)
              ELSE IF start > Len(arr) THEN Len(arr) ELSE start
  IN SubSeq(arr, 1, from) \o <<x>> \o SubSeq(arr, from + 1, Len(arr))

\* node.children[index - 1] ?? null
childOf(h, node, index) ==
  IF index \in 1..Len(h[node].children) THEN h[node].children[index] ELSE NoNode

\* getByPath on the heap
RECURSIVE getByPathIn(_, _, _)
getByPathIn(h, node, path) ==
  IF path = <<>> THEN node
  ELSE IF node = NoNode THEN NoNode
  ELSE getByPathIn(h, childOf(h, node, Head(path)), Tail(path))

\* "if (x.parent) { i = x.parent.children.indexOf(x); if (i >= 0) splice(i, 1) }"
unlink(h, x) ==
  LET par == h[x].parent IN
  IF par = NoNode THEN h
  ELSE LET i == indexOf(h[par].children, x)
       IN IF i >= 0 THEN [h EXCEPT ![par].children = spliceOut(@, i)] ELSE h

Threw(h) == [raised |-> TRUE, heap |-> h]

Ran(h) == [raised |-> FALSE, heap |-> h]

makeNode(h, parent) ==
  LET node == Len(h) + 1
      h1 == Append(h, [parent |-> parent, children |-> <<>>,
                       symbol |-> node, surface |-> node])
  IN IF parent # NoNode THEN [h1 EXCEPT ![parent].children = Append(@, node)] ELSE h1

detach(h, parent, index) ==
  LET child == childOf(h, parent, index) IN
  IF child = NoNode THEN Threw(h)
  ELSE LET h1 == [h EXCEPT ![parent].children = spliceOut(@, index - 1)]
       IN Ran([h1 EXCEPT ![child].parent = NoNode])

\* "parent.children[index - 1] = replacement": past the end the array grows
setAt(arr, at, x) ==
  IF at < Len(arr) THEN [arr EXCEPT ![at + 1] = x] ELSE Append(arr, x)

replaceChild(h, parent, index, replacement) ==
  LET old == childOf(h, parent, index) IN
  IF old = NoNode THEN Threw(h)
  ELSE LET h1 == unlink(h, replacement)
           h2 == [h1 EXCEPT ![parent].children = setAt(@, index - 1, replacement)]
           h3 == [h2 EXCEPT ![replacement].parent = parent]
       IN Ran([h3 EXCEPT ![old].parent = NoNode])

addChild(h, parent, child) ==
  LET h1 == unlink(h, child)
      h2 == [h1 EXCEPT ![child].parent = parent]
  IN Ran([h2 EXCEPT ![parent].children = Append(@, child)])

detachByPtr(h, parent, child) ==
  LET idx == indexOf(h[parent].children, child) IN
  IF idx < 0 THEN Threw(h)
  ELSE LET h1 == [h EXCEPT ![parent].children = spliceOut(@, idx)]
       IN Ran([h1 EXCEPT ![child].parent = NoNode])

insertAt(h, r, path, node) ==
  IF path = <<>> THEN Threw(h)
  ELSE LET parentPath == SubSeq(path, 1, Len(path) - 1)
           childIdx == path[Len(path)]
           parent == getByPathIn(h, r, parentPath)
       IN IF parent = NoNode THEN Threw(h)
          ELSE LET h1 == unlink(h, node)
                   h2 == [h1 EXCEPT ![node].parent = parent]
                   zeroIdx == childIdx - 1
               IN IF zeroIdx >= Len(h2[parent].children)
                  THEN Ran([h2 EXCEPT ![parent].children = Append(@, node)])
                  ELSE Ran([h2 EXCEPT ![parent].children = spliceIn(@, zeroIdx, node)])

\* the nodes created so far
Nodes == 1..Len(heap)

Indexes == (0 - 1)..(MaxNodes + 1)

InsertPaths ==
  {<<>>} \cup {<<i>> : i \in Indexes} \cup {<<j, i>> : j \in 0..(MaxNodes - 1), i \in Indexes}

calls == IF thrown = <<>> THEN 0 ELSE thrown[1].calls

\* the outcome of the last mutating call: whether it raised, whether its index
\* was an invalid one, and whether any children list or parent pointer differs
\* from before the call
Outcome(op, invalid, out) ==
  <<[op |-> op, raised |-> out.raised, invalid |-> invalid,
     changed |-> out.heap # heap, calls |-> calls + 1]>>

Mutate(op, invalid, out) ==
  /\ calls < MaxOps
  /\ heap' = out.heap
  /\ thrown' = Outcome(op, invalid, out)
  /\ UNCHANGED <<matcherVars, parserVars, registryVars>>

\* newRoot / newNode(parent, ...)
NewNode ==
  /\ Len(heap) < MaxNodes
  /\ \E parent \in Nodes \cup {NoNode} : heap' = makeNode(heap, parent)
  /\ UNCHANGED <<thrown, matcherVars, parserVars, registryVars>>

AddChild ==
  \E parent \in Nodes, child \in Nodes :
    Mutate("addChild", FALSE, addChild(heap, parent, child))

Detach ==
  \E parent \in Nodes, index \in Indexes :
    Mutate("detach", index \notin 1..Len(heap[parent].children),
           detach(heap, parent, index))

DetachByPtr ==
  \E parent \in Nodes, child \in Nodes :
    Mutate("detachByPtr", FALSE, detachByPtr(heap, parent, child))

ReplaceChild ==
  \E parent \in Nodes, index \in Indexes, replacement \in Nodes :
    Mutate("replaceChild", index \notin 1..Len(heap[parent].children),
           replaceChild(heap, parent, index, replacement))

\* is the path one the insertion has no place for: its parent path resolves
\* nowhere, or its last element is outside 1..n+1 for a parent of n children
invalidInsert(h, r, path) ==
  /\ path # <<>>
  /\ LET parent == getByPathIn(h, r, SubSeq(path, 1, Len(path) - 1))
     IN \/ parent = NoNode
        \/ path[Len(path)] \notin 1..(Len(h[parent].children) + 1)

InsertAt ==
  \E r \in Nodes, path \in InsertPaths, node \in Nodes :
    Mutate("insertAt", invalidInsert(heap, r, path), insertAt(heap, r, path, node))

InitTree ==
  /\ heap = <<>>
  /\ thrown = <<>>
  /\ MatcherIdle /\ ParserIdle /\ RegistryIdle

NextTree ==
  \/ NewNode
  \/ AddChild
  \/ Detach
  \/ DetachByPtr
  \/ ReplaceChild
  \/ InsertAt

SpecTree == InitTree /\ [][NextTree]_vars

\* replaceNode(target, replacement), statement by statement
replaceNode(h, target, replacement) ==
  LET h1 == [h EXCEPT ![target].symbol = h[replacement].symbol,
                      ![target].surface = h[replacement].surface]
      h2 == [h1 EXCEPT ![target].children = h1[replacement].children]
      moved == {h2[target].children[i] : i \in 1..Len(h2[target].children)}
      h3 == [n \in DOMAIN h2 |->
               IF n \in moved THEN [h2[n] EXCEPT !.parent = target] ELSE h2[n]]
      h4 == [h3 EXCEPT ![replacement].children = <<>>]
  IN Ran([h4 EXCEPT ![replacement].parent = NoNode])

ReplaceNode ==
  \E target \in Nodes, replacement \in Nodes :
    Mutate("replaceNode", FALSE, replaceNode(heap, target, replacement))

\* trees are built by node creation and addChild, then contents are replaced
NextReplace ==
  \/ NewNode
  \/ AddChild
  \/ ReplaceNode

SpecReplace == InitTree /\ [][NextReplace]_vars

(***************************************************************************)
(* Properties.                                                             *)
(***************************************************************************)
Done == pc = "done"


\* a script of one call of the given api
Single(api) == Len(script) = 1 /\ script[1].api = api

\* the symbol of a tree's node at path p
SymAt(t, p) == NodeAt(t, p).sym


IsSymAtom(x) == x.op = "SYMBOL_LITERAL" /\ ~x.set /\ x.kids = <<>>

IsAtom(x) == IsSymAtom(x) \/ (x.op = "SYMBOL_ANY" /\ x.kids = <<>>)

\* does the atom x accept the tree node n
AtomAccepts(x, n) == x.op = "SYMBOL_ANY" \/ n.sym = x.syms[1]

SingleGroupPats ==
  {GroupP("G", x) : x \in GroupBodies} \cup {LitD("A", GroupP("G", x)) : x \in GroupBodies}

\* C1: when matchr succeeds on a pattern whose accepting path passes through
\* the single group <G:X>, the result has exactly one top-level capture, with
\* symbol G, the path of the node the group opened on, and siblingsCount >= 1.
C1_SingleGroupCapture ==
  (Done /\ Single("matchr") /\ script[1].pat \in SingleGroupPats
        /\ Returned(1) /\ ~results[1].isNull)
  => /\ Len(results[1].ret) = 1
     /\ results[1].ret[1].symbol = "G"
     /\ results[1].ret[1].siblingsCount >= 1
     /\ results[1].groups[1].startNode # null
     /\ results[1].ret[1].path = results[1].groups[1].startNode
     /\ HasNode(script[1].tree, results[1].ret[1].path)

\* C2: match and matchr terminate (reach Match or an empty backtrack stack)
\* for every parsed pattern and finite tree, also when a quantifier wraps a
\* body that can match without consuming a node.
C2_Terminates ==
  \A i \in DOMAIN results : results[i].outcome # "diverged"

SeqAtoms(body) == IF body.op = "SEQUENCE" THEN body.kids ELSE <<body>>

IsSeqOfSymAtoms(p) ==
  /\ p.op = "SYMBOL_LITERAL" /\ ~p.set /\ Len(p.kids) = 1
  /\ LET cs == SeqAtoms(p.kids[1])
     IN \A i \in 1..Len(cs) : IsSymAtom(cs[i])

PrefixHolds(p, t) ==
  LET cs == SeqAtoms(p.kids[1])
  IN /\ t.sym = p.syms[1]
     /\ Len(t.kids) >= Len(cs)
     /\ \A i \in 1..Len(cs) : t.kids[i].sym = cs[i].syms[1]

\* C3: /A/(c1,...,cm) over symbol atoms matches T exactly when T's root is A
\* and T's first m children carry c1..cm in order; later children are ignored.
C3_PrefixMatching ==
  (Done /\ Single("match") /\ IsSeqOfSymAtoms(script[1].pat) /\ Returned(1))
  => results[1].ret = PrefixHolds(script[1].pat, script[1].tree)

C3_Witness ==
  /\ Done /\ Single("match") /\ IsSeqOfSymAtoms(script[1].pat) /\ Returned(1)
  /\ Len(SeqAtoms(script[1].pat.kids[1])) = 2
  /\ Len(script[1].tree.kids) = 3
  /\ results[1].ret = TRUE

IsDescentStep ==
  /\ Running
  /\ Top.state # NoState
  /\ Top.cursor # null
  /\ LET st == StateOf(Top.state)
     IN /\ st.type \in {Symbol, Any}
        /\ st.transition = TransitionDown
        /\ st.type = Symbol => symbolMatches(st, NodeAt(Tree, Top.cursor))

FirstChildOrNull(t, n) ==
  IF Len(NodeAt(t, n).kids) > 0 THEN n \o <<1>> ELSE null

IsTwoDescents(p) ==
  /\ p.op = "SYMBOL_LITERAL" /\ ~p.set /\ Len(p.kids) = 1
  /\ p.kids[1].op = "SYMBOL_LITERAL" /\ ~p.kids[1].set /\ Len(p.kids[1].kids) = 1
  /\ IsSymAtom(p.kids[1].kids[1])

TwoDescentsHold(p, t) ==
  /\ t.sym = p.syms[1]
  /\ Len(t.kids) >= 1
  /\ t.kids[1].sym = p.kids[1].syms[1]
  /\ Len(t.kids[1].kids) >= 1
  /\ t.kids[1].kids[1].sym = p.kids[1].kids[1].syms[1]

\* C4: descent consumes exactly one level: when the symbol state of A in /A/X
\* matches node n, X starts with the cursor on n's first child (null when n
\* has none), and /A/B/B matches exactly the trees A(B(B ...) ...).
C4_DescentOneLevel ==
  /\ [][IsDescentStep =>
          /\ Len(frames') = Len(frames)
          /\ frames'[Len(frames)].cursor = FirstChildOrNull(Tree, Top.cursor)
          /\ frames'[Len(frames)].state = StateOf(Top.state).out]_vars
  /\ []((Done /\ Single("match") /\ IsTwoDescents(script[1].pat) /\ Returned(1))
          => results[1].ret = TwoDescentsHold(script[1].pat, script[1].tree))

C4_Witness ==
  /\ pc = "run" /\ Single("match") /\ IsTwoDescents(script[1].pat)
  /\ Len(frames) = 1
  /\ Top.cursor = <<1, 1>>
  /\ Top.state = nfa.sts[nfa.sts[nfa.start].out].out

IsQuantOfAtom(p, op) ==
  /\ p.op = "SYMBOL_LITERAL" /\ ~p.set /\ Len(p.kids) = 1
  /\ p.kids[1].op = op
  /\ IsAtom(p.kids[1].kids[1])

\* C5: /P/X* matches every T whose root is P, childless or not; /P/X+ matches
\* exactly when the root is P and the first child matches X.
C5_StarPlus ==
  (Done /\ Single("match") /\ Returned(1))
  => LET p == script[1].pat
         t == script[1].tree
     IN /\ IsQuantOfAtom(p, "ZERO_OR_MORE") => (results[1].ret = (t.sym = p.syms[1]))
        /\ IsQuantOfAtom(p, "ONE_OR_MORE") =>
             (results[1].ret = (/\ t.sym = p.syms[1]
                                /\ Len(t.kids) >= 1
                                /\ AtomAccepts(p.kids[1].kids[1], t.kids[1])))

C5_Witness ==
  /\ Done /\ Single("match") /\ Returned(1)
  /\ IsQuantOfAtom(script[1].pat, "ZERO_OR_MORE")
  /\ script[1].tree.kids = <<>>
  /\ results[1].ret = TRUE

IsBoth ==
  /\ Len(script) = 2
  /\ script[1].api = "match" /\ script[2].api = "matchr"
  /\ script[1].pat = script[2].pat /\ script[1].tree = script[2].tree

\* C6: on the same pattern and tree, match returns true exactly when matchr
\* returns a list (not null), whenever both calls return.
C6_MatchIffMatchr ==
  (Done /\ IsBoth /\ Returned(1) /\ Returned(2))
  => (results[1].ret = ~results[2].isNull)

C6_Witness ==
  /\ Done /\ IsBoth /\ Returned(1) /\ Returned(2)
  /\ results[1].ret = TRUE
  /\ results[2].ret = <<>>

RECURSIVE StepsToEnd(_, _, _)
StepsToEnd(t, s, e) ==
  IF s = e THEN 0
  ELSE IF Last(s) >= Len(NodeAt(t, Front(s)).kids) THEN 1
  ELSE 1 + StepsToEnd(t, Append(Front(s), Last(s) + 1), e)

ClaimedCount(t, s, e) ==
  LET n == IF s = <<>> THEN 1
           ELSE IF e # null /\ e # <<>> /\ Front(e) = Front(s) THEN Last(e) - Last(s)
           ELSE StepsToEnd(t, s, e)
  IN IF n < 1 THEN 1 ELSE n

\* C7: siblingsCount of a capture with start node s and end cursor e is
\* index(e) - index(s) when they share a parent, else (e null or past a sibling
\* boundary) the number of nextSibling steps from s to e or to the end of the
\* sibling list, and never less than 1; a group that matched the last k >= 2
\* siblings reports k.
C7_SiblingsCount ==
  (Done /\ Single("matchr") /\ Returned(1) /\ ~results[1].isNull)
  => \A i \in 1..Len(results[1].ret) :
       results[1].groups[i].startNode # null
       => results[1].ret[i].siblingsCount =
            ClaimedCount(script[1].tree, results[1].groups[i].startNode,
                         results[1].groups[i].endNode)

\* C8: a walk started on node o makes only o and descendants of o the cursor.
C8_WalkStaysInSubtree ==
  \A i \in 1..Len(frames) : \A j \in 1..Len(frames[i].stack) :
    LET bp == frames[i].stack[j]
    IN StateOf(bp.state).type = Walk => IsPrefix(bp.walkRoot, bp.walkNode)

IsNotNot ==
  /\ Len(script) = 2
  /\ script[1].api = "match" /\ script[2].api = "match"
  /\ script[1].pat = NotP(NotP(script[2].pat))
  /\ script[1].tree = script[2].tree

\* C9: match(/~~X, T) = match(/X, T) for non-capturing X, when both return.
C9_NotInvolution ==
  (Done /\ IsNotNot /\ Returned(1) /\ Returned(2))
  => results[1].ret = results[2].ret

C9_Witness ==
  /\ Done /\ IsNotNot /\ Returned(1) /\ Returned(2)
  /\ results[2].ret = FALSE
  /\ results[1].ret = FALSE

\* C10: the top-level captures matchr returns are in pre-order: each path is
\* lexicographically <= the next one's.
C10_PreOrder ==
  (Done /\ Single("matchr") /\ Returned(1) /\ ~results[1].isNull)
  => \A i \in 1..(Len(results[1].ret) - 1) :
       PathLeq(results[1].ret[i].path, results[1].ret[i + 1].path)

\* a GroupClose of the outermost doMatch whose exit is the accept state: the
\* next iteration returns matched, so the run it is on reaches Match
ClosingBeforeMatch ==
  /\ Len(frames) = 1
  /\ AtType(GroupClose)
  /\ StateOf(Top.state).out = MatchId

\* C11: on a run that reaches Match every GroupClose pops the capture its own
\* GroupOpen pushed (same uid), none finds the open-capture stack empty, and
\* the open-capture stack is empty when Match is reached.
C11_GroupsPaired ==
  /\ ClosingBeforeMatch
       => /\ Top.open # <<>>
          /\ Last(Top.open).uid = StateOf(StateOf(Top.state).openState).uid
  /\ (pc = "run" /\ Len(frames) = 1 /\ Top.ret = "true") => Top.open = <<>>

IsValueLiteral(p) == p.op \in {"VALUE_LITERAL", "VALUE_LITERAL_NOT"}

\* the joint test of a value literal on a node: same symbol, and the surface
\* is the literal's value (one of the values, for a set)
JointTest(p, n) ==
  /\ n.sym = p.vals[1].sym
  /\ \E i \in 1..Len(p.vals) : n.val = p.vals[i].val

\* C12: a value literal matches a node exactly when the node's symbol is the
\* literal's symbol and its surface is the literal's value (one of them for a
\* set); the NOT forms match exactly when that joint test fails.
C12_ValueLiteral ==
  (Done /\ Single("match") /\ IsValueLiteral(script[1].pat) /\ Returned(1))
  => results[1].ret =
       (IF script[1].pat.op = "VALUE_LITERAL_NOT"
        THEN ~JointTest(script[1].pat, script[1].tree)
        ELSE JointTest(script[1].pat, script[1].tree))

\* the node at path p followed by its next n - 1 siblings
SiblingSlice(p, n) ==
  IF p = <<>> THEN <<p>>
  ELSE [k \in 1..n |-> Append(Front(p), Last(p) + k - 1)]

\* C13: for every capture r of matchr(P,T), nested ones included,
\* getMatchedNodes(T, r) does not raise and returns exactly r.siblingsCount
\* nodes, the node at r.path and its next siblings in order; a path that does
\* not resolve in T gives the empty list.
C13_MatchedNodes ==
  \A i \in DOMAIN results :
    results[i].api = "getMatchedNodes"
    => LET r == results[i].groups[1]
           t == script[i].tree
       IN /\ results[i].outcome = "ok"
          /\ IF HasNode(t, r.path)
             THEN /\ Len(results[i].ret) = r.siblingsCount
                  /\ results[i].ret = SiblingSlice(r.path, r.siblingsCount)
                  /\ \A k \in 1..Len(results[i].ret) : HasNode(t, results[i].ret[k])
             ELSE results[i].ret = <<>>

C13_Witness ==
  /\ Done /\ Len(script) = 2 /\ Returned(2)
  /\ results[2].api = "getMatchedNodes"
  /\ results[2].groups[1].siblingsCount = 2
  /\ results[2].groups[1].symbol = "H"
  /\ Len(results[2].ret) = 2

IsNotThenAtom(p) ==
  /\ p.op = "SYMBOL_LITERAL" /\ ~p.set /\ Len(p.kids) = 1
  /\ p.kids[1].op = "SEQUENCE" /\ Len(p.kids[1].kids) = 2
  /\ p.kids[1].kids[1].op = "NOT"
  /\ IsSymAtom(p.kids[1].kids[1].kids[1])
  /\ IsAtom(p.kids[1].kids[2])

\* /P/(~a,y) with the negation decided by its body alone: the root is P, the
\* first child is not a, and y accepts the first child (the Not consumes none)
NotThenAtomHolds(p, t) ==
  /\ t.sym = p.syms[1]
  /\ Len(t.kids) >= 1
  /\ t.kids[1].sym # p.kids[1].kids[1].kids[1].syms[1]
  /\ AtomAccepts(p.kids[1].kids[2], t.kids[1])

\* C20: a Not succeeds exactly when its body alone does not match at the
\* cursor, whatever follows the negation: /P/(~a,y) is false on every P whose
\* first child is a, and otherwise is decided by y on the first child.
C20_NotIndependent ==
  (Done /\ Single("match") /\ IsNotThenAtom(script[1].pat) /\ Returned(1))
  => results[1].ret = NotThenAtomHolds(script[1].pat, script[1].tree)

(***************************************************************************)
(* The registry's ids.                                                     *)
(***************************************************************************)
CountersAbove ==
  \A k \in 1..Len(contexts) :
    /\ \A i \in 1..Len(contexts[k].symbols) :
         contexts[k].nextSymbolId > contexts[k].symbols[i].id
    /\ \A i \in 1..Len(contexts[k].structures) :
         contexts[k].nextStructureId > contexts[k].structures[i].id

IsDefine(d) == d.kind \in {"symbol", "structure"}

\* C17: defineSymbol and defineStructure return a fresh id of their context, so
\* no stored definition is overwritten; each next-id counter of a context is
\* greater than every id stored in its map; the ids one context hands out for
\* one kind are strictly increasing; and once registerBaseDefs has run, a symbol
\* defined in context 0 has an id greater than 43.
C17_FreshIds ==
  /\ CountersAbove
  /\ \A j \in 1..Len(defined) :
       IsDefine(defined[j]) =>
         /\ ~defined[j].present
         /\ \A i \in 1..(j - 1) :
              (defined[i].kind = defined[j].kind /\ defined[i].context = defined[j].context)
                => defined[i].id < defined[j].id
         /\ (/\ defined[j].kind = "symbol"
             /\ defined[j].context = SYS_CONTEXT
             /\ \E i \in 1..(j - 1) : defined[i].kind = "register")
              => defined[j].id > 43

\* a symbol defined in context 0, then the base definitions, then another symbol
C17_Witness ==
  /\ Len(defined) >= 3
  /\ defined[1].kind = "symbol" /\ defined[1].context = SYS_CONTEXT
  /\ defined[2].kind = "register"
  /\ defined[3].kind = "symbol" /\ defined[3].context = SYS_CONTEXT
  /\ defined[3].id = 44

(***************************************************************************)
(* The parser.                                                             *)
(***************************************************************************)
\* the templates whose string is the current input
TemplatesOfInput == {t \in Templates : render(t) = input}

UnknownLabelReported ==
  \A t \in TemplatesOfInput :
    unknownItems(t) # {} =>
      /\ parsed = SemtrexParseError(labelOffset(t, firstUnknown(t)))
      /\ "node" \notin DOMAIN parsed

\* C15: a well-formed pattern with a label that does not resolve in the
\* registry (as a symbol, in a symbol set, as the symbol of a value literal or
\* as a group name) makes parseSemtrex raise a parse error whose position is
\* the offset of that label in the pattern string, the first such label when
\* there are several; no tree is returned and the registry is left as it was.
C15_UnknownLabel == [](UnknownLabelReported) /\ [][contexts' = contexts]_vars

\* a group whose name resolves and whose body holds an unknown label, written
\* with blanks
C15_Witness ==
  /\ input = <<"/", "<", " ", "G", ":", " ", "A", "x", ">">>
  /\ parsed = SemtrexParseError(6)

symbolLiteral(name) ==
  newEmpty(SYM("SEMTREX_SYMBOL_LITERAL"),
           <<newSym(SYM("SEMTREX_SYMBOL"), symbolByName(contexts, name).sym)>>)

SEQUENCE(kids) == newEmpty(SYM("SEMTREX_SEQUENCE"), kids)

OR(left, right) == newEmpty(SYM("SEMTREX_OR"), <<left, right>>)

ZERO_OR_MORE(x) == newEmpty(SYM("SEMTREX_ZERO_OR_MORE"), <<x>>)

ONE_OR_MORE(x) == newEmpty(SYM("SEMTREX_ONE_OR_MORE"), <<x>>)

ParsesTo(shape, tree) ==
  \A sp \in BOOLEAN :
    input = render([items |-> shape, spaced |-> sp]) => parsed = [ok |-> TRUE, node |-> tree]

\* C16: alternation binds looser than sequence and a postfix quantifier binds
\* only to the atom or group right before it: for defined labels A, B, C,
\* /A,B|C parses to OR(SEQUENCE(A,B),C), /A,B* to SEQUENCE(A,ZERO_OR_MORE(B)),
\* /A|B+ to OR(A,ONE_OR_MORE(B)) and /(A,B)* to ZERO_OR_MORE(SEQUENCE(A,B)).
C16_Precedence ==
  \A a \in KnownLabels, b \in KnownLabels, c \in KnownLabels :
    LET A == symbolLiteral(a)
        B == symbolLiteral(b)
        C == symbolLiteral(c)
    IN /\ ParsesTo(<<P("/"), L(a), P(","), L(b), P("|"), L(c)>>, OR(SEQUENCE(<<A, B>>), C))
       /\ ParsesTo(<<P("/"), L(a), P(","), L(b), P("*")>>, SEQUENCE(<<A, ZERO_OR_MORE(B)>>))
       /\ ParsesTo(<<P("/"), L(a), P("|"), L(b), P("+")>>, OR(A, ONE_OR_MORE(B)))
       /\ ParsesTo(<<P("/"), P("("), L(a), P(","), L(b), P(")"), P("*")>>,
                   ZERO_OR_MORE(SEQUENCE(<<A, B>>)))

\* /A,B|C has been parsed
C16_Witness ==
  /\ input = <<"/", "A", ",", "B", "|", "C">>
  /\ parsed.ok
  /\ parsed.node.symbol = SYM("SEMTREX_OR")
  /\ Len(parsed.node.children) = 2

(***************************************************************************)
(* Tree mutation.                                                          *)
(***************************************************************************)
occurrences(arr, x) == Cardinality({i \in 1..Len(arr) : arr[i] = x})

RECURSIVE ancestorWithin(_, _, _)
ancestorWithin(n, a, steps) ==
  /\ steps > 0
  /\ heap[n].parent # NoNode
  /\ (heap[n].parent = a \/ ancestorWithin(heap[n].parent, a, steps - 1))

\* C18: after any sequence of node creations and addChild, detach, detachByPtr,
\* replaceChild and insertAt calls the nodes form a consistent forest: a node
\* whose parent is P occurs exactly once in P's children, every member of P's
\* children has parent P, and no node is its own ancestor.
C18_ConsistentForest ==
  /\ \A n \in Nodes :
       heap[n].parent # NoNode => occurrences(heap[heap[n].parent].children, n) = 1
  /\ \A par \in Nodes : \A i \in 1..Len(heap[par].children) :
       heap[heap[par].children[i]].parent = par
  /\ \A n \in Nodes : ~ancestorWithin(n, n, Len(heap))

\* C19: a mutation given an invalid index (detach or replaceChild with an index
\* outside 1..n; insertAt with a last path element outside 1..n+1 or a parent
\* path that does not resolve) raises an error and leaves every children list
\* and parent pointer as it was.
C19_InvalidIndexRaises ==
  \A i \in 1..Len(thrown) :
    thrown[i].invalid => (thrown[i].raised /\ ~thrown[i].changed)

\* the same for detach and replaceChild alone
InvalidIndexOfDetachOrReplace ==
  \A i \in 1..Len(thrown) :
    (thrown[i].invalid /\ thrown[i].op \in {"detach", "replaceChild"})
      => (thrown[i].raised /\ ~thrown[i].changed)


(***************************************************************************)
(* Backtracking and the captures.                                          *)
(***************************************************************************)
\* the GroupClose states of the groups that enclose state s: buildFA numbers
\* a group's body after its GroupOpen and before its GroupClose
enclosingCloses(s) ==
  {c \in DOMAIN nfa.sts :
     nfa.sts[c].type = GroupClose /\ nfa.sts[c].openState < s /\ s <= c}

\* the branch point backtrack() resumes at (exhausted walks are dropped)
RECURSIVE resumed(_)
resumed(f) ==
  LET bp == Last(f.stack)
  IN IF StateOf(bp.state).type = Walk /\ bp.walkNode # null /\ walkStep(bp) = null
     THEN resumed([f EXCEPT !.stack = Front(f.stack)])
     ELSE bp

\* this step makes invocation n of doMatch resume at a branch point
BacktracksAt(n) ==
  /\ pc = "run" /\ pc' = "run"
  /\ n = Len(frames')
  /\ frames[n].stack # <<>>
  /\ backtrack(frames[n]).ok
  /\ frames'[n] = backtrack(frames[n]).f

\* every group around the state the outermost doMatch is at has its capture
\* on the open-capture stack
OpenGroupsKept ==
  (pc = "run" /\ Len(frames) = 1 /\ Top.ret = "run" /\ Top.state \in DOMAIN nfa.sts)
  => \A c \in enclosingCloses(Top.state) :
       \E k \in 1..Len(Top.open) :
         Top.open[k].uid = nfa.sts[nfa.sts[c].openState].uid

\* C21: backtracking to a branch point restores the cursor and the completed
\* captures saved in it, and a group opened before a Split or Walk branch
\* point is still open afterwards: every group around the current state keeps
\* its capture on the open-capture stack.
C21_BacktrackRestores ==
  /\ [][\A n \in 1..Len(frames) :
          BacktracksAt(n)
          => LET bp == resumed(frames[n])
             IN /\ frames'[n].groups = bp.groups
                /\ frames'[n].cursor =
                     IF StateOf(bp.state).type = Walk /\ bp.walkNode # null
                     THEN walkStep(bp) ELSE bp.cursor]_vars
  /\ [](OpenGroupsKept)


(***************************************************************************)
(* Sequences whose elements descend.                                       *)
(***************************************************************************)
IsNestedSeq(p) ==
  /\ p.op = "SYMBOL_LITERAL" /\ ~p.set /\ Len(p.kids) = 1
  /\ p.kids[1].op = "SEQUENCE" /\ Len(p.kids[1].kids) = 2
  /\ LET x == p.kids[1].kids[1]
     IN /\ x.op = "SYMBOL_LITERAL" /\ ~x.set /\ Len(x.kids) = 1
        /\ \/ IsSymAtom(x.kids[1])
           \/ /\ x.kids[1].op \in {"ZERO_OR_ONE", "ZERO_OR_MORE"}
              /\ IsSymAtom(x.kids[1].kids[1])
  /\ IsSymAtom(p.kids[1].kids[2])

\* /R/(X/body,Y) with Y tested on the next sibling of the node X matched: the
\* root is R, the first child is X and its children start as body asks (a
\* quantified body asks nothing), and the second child is Y
NestedSeqHolds(p, t) ==
  LET x == p.kids[1].kids[1]
      y == p.kids[1].kids[2]
  IN /\ t.sym = p.syms[1]
     /\ Len(t.kids) >= 2
     /\ t.kids[1].sym = x.syms[1]
     /\ IsSymAtom(x.kids[1])
          => /\ Len(t.kids[1].kids) >= 1
             /\ t.kids[1].kids[1].sym = x.kids[1].syms[1]
     /\ t.kids[2].sym = y.syms[1]

\* C22: in /R/(X/body,Y), whenever the body finishes under the node n that X
\* matched, Y is tested with the cursor on the next sibling of n, whichever
\* way the body finishes (a quantified or optional ending included), so the
\* pattern matches exactly the trees R(X(body ...), Y ...).
C22_SequenceAfterDescent ==
  /\ (pc = "run" /\ IsNestedSeq(script[ci].pat) /\ Len(frames) = 1 /\ Top.ret = "run"
        /\ Top.state \in DOMAIN nfa.sts /\ nfa.sts[Top.state].out = MatchId)
     => Top.cursor = nextSibling(Tree, <<1>>)
  /\ (Done /\ Single("match") /\ IsNestedSeq(script[1].pat) /\ Returned(1))
     => results[1].ret = NestedSeqHolds(script[1].pat, script[1].tree)


(***************************************************************************)
(* Negation and captures.                                                  *)
(***************************************************************************)
\* the symbols of the groups of pattern p that lie inside (inNot) or outside
\* (~inNot) the body of a negation; under is TRUE below a NOT node
RECURSIVE groupSyms(_, _, _)
groupSyms(p, under, inNot) ==
  (IF p.op = "GROUP" /\ under = inNot THEN {p.syms[1]} ELSE {})
  \cup UNION {groupSyms(p.kids[i], under \/ p.op = "NOT", inNot) : i \in 1..Len(p.kids)}

HasNotGroups(p) ==
  /\ groupSyms(p, FALSE, TRUE) # {}
  /\ groupSyms(p, FALSE, TRUE) \cap groupSyms(p, FALSE, FALSE) = {}

\* the captures of a raw capture list, nested ones included
RECURSIVE captureSyms(_)
captureSyms(list) ==
  UNION {{list[i].symbol} \cup captureSyms(list[i].children) : i \in 1..Len(list)}

\* C23: captures produced by groups inside a negation's body never appear in
\* what matchr returns, at top level or nested, whether the negation succeeds
\* or fails: neither the list matchr returns nor the capture list and open
\* captures of the outermost doMatch ever hold one.
C23_NotCapturesDiscarded ==
  \A i \in 1..Len(script) :
    (script[i].api = "matchr" /\ HasNotGroups(script[i].pat))
    => LET inside == groupSyms(script[i].pat, FALSE, TRUE)
       IN /\ (i \in DOMAIN results /\ Returned(i))
               => /\ captureSyms(results[i].ret) \cap inside = {}
                  /\ captureSyms(results[i].groups) \cap inside = {}
          /\ (i = ci /\ pc = "run")
               => /\ captureSyms(frames[1].groups) \cap inside = {}
                  /\ captureSyms(frames[1].open) \cap inside = {}

\* a negation with a group in its body failed, the alternative matched, and
\* matchr returned the capture of the group outside the negation alone
C23_Witness ==
  /\ Done /\ Single("matchr") /\ Returned(1) /\ ~results[1].isNull
  /\ script[1].pat.op = "OR"
  /\ groupSyms(script[1].pat, FALSE, TRUE) = {"N"}
  /\ captureSyms(results[1].ret) = {"G"}


(***************************************************************************)
(* The order of a walk.                                                    *)
(***************************************************************************)
\* the paths of the nodes of t in depth-first pre-order, p being t's own path
RECURSIVE preorder(_, _)
RECURSIVE preorderFrom(_, _, _)
preorder(t, p) == <<p>> \o preorderFrom(t, p, 1)

preorderFrom(t, p, i) ==
  IF i > Len(t.kids) THEN <<>>
  ELSE preorder(t.kids[i], Append(p, i)) \o preorderFrom(t, p, i + 1)

\* the node after n in the pre-order of tree t, null after the last one
successor(t, n) ==
  LET order == preorder(t, <<>>)
      k == CHOOSE j \in 1..Len(order) : order[j] = n
  IN IF k < Len(order) THEN order[k + 1] ELSE null

\* the first node of t in pre-order that carries symbol x, null when none does
firstWith(t, x) ==
  LET order == preorder(t, <<>>)
      hits == {j \in 1..Len(order) : SymAt(t, order[j]) = x}
  IN IF hits = {} THEN null
     ELSE order[CHOOSE j \in hits : \A h \in hits : j <= h]

\* invocation n of doMatch resumes a walk in this step
ResumesWalk(n) ==
  /\ BacktracksAt(n)
  /\ StateOf(resumed(frames[n]).state).type = Walk
  /\ resumed(frames[n]).walkNode # null

IsWalkOfSym(p) == p.op = "WALK" /\ IsSymAtom(p.kids[1])

IsWalkOfGroup(p) ==
  p.op = "WALK" /\ p.kids[1].op = "GROUP" /\ IsSymAtom(p.kids[1].kids[1])

\* C24: a walk tries its body first at its origin and then at the nodes that
\* follow it in depth-first pre-order, one node further each time it resumes
\* (so no node twice), and the first node where the pattern matches wins: the
\* capture of /%<G:X> has the path of the first pre-order node with symbol X
\* (null when there is none), and match(/%X, T) is true exactly when some node
\* of T has symbol X.
C24_WalkOrder ==
  /\ [][/\ (AtType(Walk) /\ Top.cursor # null /\ ~BacktracksAt(Len(frames)))
             => /\ Last(frames'[Len(frames)].stack).walkNode = Top.cursor
                /\ frames'[Len(frames)].cursor = Top.cursor
                /\ frames'[Len(frames)].state = StateOf(Top.state).out
          /\ \A n \in 1..Len(frames) :
               ResumesWalk(n)
               => LET bp == resumed(frames[n])
                      next == successor(Tree, bp.walkNode)
                  IN /\ next # null
                     /\ Last(frames'[n].stack).walkNode = next
                     /\ frames'[n].cursor = next
                     /\ frames'[n].state = StateOf(bp.state).out]_vars
  /\ [](\A i \in DOMAIN results :
          Returned(i)
          => LET p == script[i].pat
                 t == NodeAt(script[i].tree, script[i].at)
             IN /\ (results[i].api = "match" /\ IsWalkOfSym(p))
                     => results[i].ret = (firstWith(t, p.kids[1].syms[1]) # null)
                /\ (results[i].api = "matchr" /\ IsWalkOfGroup(p))
                     => LET first == firstWith(t, p.kids[1].kids[1].syms[1])
                        IN IF first = null THEN results[i].isNull
                           ELSE /\ ~results[i].isNull
                                /\ Len(results[i].ret) = 1
                                /\ results[i].ret[1].symbol = p.kids[1].syms[1]
                                /\ results[i].ret[1].path = script[i].at \o first)

(***************************************************************************)
(* The automaton makeFA leaves.                                            *)
(***************************************************************************)
\* the exits a state has: out, and out1 for a Split and a Not
Slots(sts) ==
  {PatchTarget(s, "out") : s \in DOMAIN sts}
  \cup {PatchTarget(s, "out1") : s \in {x \in DOMAIN sts : sts[x].type \in {Split, Not}}}

SlotValue(sts, t) == IF t.field = "out" THEN sts[t.state].out ELSE sts[t.state].out1

Dangling(sts) == {t \in Slots(sts) : SlotValue(sts, t) = NoState}

\* a fragment's output list names each exit still open once, and nothing else
FragSound(frag) ==
  /\ \A i, j \in 1..Len(frag.outputs) : frag.outputs[i] = frag.outputs[j] => i = j
  /\ {frag.outputs[i] : i \in 1..Len(frag.outputs)} = Dangling(frag.sts)

RECURSIVE subpatterns(_)
subpatterns(p) == {p} \cup UNION {subpatterns(p.kids[i]) : i \in 1..Len(p.kids)}

\* the states reachable from the states in todo along out and out1
RECURSIVE reach(_, _, _)
reach(sts, seen, todo) ==
  IF todo = {} THEN seen
  ELSE LET next == {sts[s].out : s \in todo \ {MatchId}}
                   \cup {sts[s].out1 : s \in todo \ {MatchId}}
           new == (next \ {NoState}) \ (seen \cup todo)
       IN reach(sts, seen \cup todo, new)

\* C25: after makeFA no exit dangles: every state reachable from the start
\* other than Match has an out, every reachable Split and Not also an out1,
\* Match is reachable from the start, and every exit a fragment lists as
\* output is open until it is patched, once (each fragment built on the way
\* lists exactly its open exits, none twice).
C25_NoDanglingExit ==
  pc = "run"
  => LET R == reach(nfa.sts, {}, {nfa.start})
     IN /\ nfa.start # NoState
        /\ MatchId \in R
        /\ \A s \in R \ {MatchId} :
             /\ nfa.sts[s].out # NoState
             /\ nfa.sts[s].type \in {Split, Not} => nfa.sts[s].out1 # NoState
        /\ Dangling(nfa.sts) = {}
        /\ \A q \in subpatterns(script[ci].pat) : FragSound(buildFA(q, 0, <<>>, 0))

\* makeFA built an automaton with a Not, a Split and a group, all reachable
C25_Witness ==
  /\ pc = "run"
  /\ LET R == reach(nfa.sts, {}, {nfa.start})
     IN /\ \E s \in R \ {MatchId} : nfa.sts[s].type = Not
        /\ \E s \in R \ {MatchId} : nfa.sts[s].type = Split
        /\ \E s \in R \ {MatchId} : nfa.sts[s].type = GroupClose
        /\ R = DOMAIN nfa.sts \cup {MatchId}


(***************************************************************************)
(* The shape of the trees parseSemtrex returns.                            *)
(***************************************************************************)
is(t, label) == t.symbol = SYM(label)

isOneOf(t, labels) == \E l \in labels : is(t, l)

Quantifiers == {"SEMTREX_ZERO_OR_MORE", "SEMTREX_ONE_OR_MORE", "SEMTREX_ZERO_OR_ONE"}

UnaryOps == Quantifiers \cup {"SEMTREX_NOT", "SEMTREX_DESCEND", "SEMTREX_WALK", "SEMTREX_GROUP"}

SymbolLiterals == {"SEMTREX_SYMBOL_LITERAL", "SEMTREX_SYMBOL_LITERAL_NOT"}

ValueLiterals == {"SEMTREX_VALUE_LITERAL", "SEMTREX_VALUE_LITERAL_NOT"}

\* the children of t that are patterns themselves (a literal's first child
\* holds its symbols or values)
patternChildren(t) ==
  IF isOneOf(t, ValueLiterals) THEN <<>>
  ELSE IF isOneOf(t, SymbolLiterals) THEN SubSeq(t.children, 2, Len(t.children))
  ELSE t.children

\* the arity each operator of a pattern tree has
RECURSIVE arityHolds(_)
arityHolds(t) ==
  LET c == Len(t.children)
  IN /\ is(t, "SEMTREX_SEQUENCE") => c >= 1
     /\ is(t, "SEMTREX_OR") => c = 2
     /\ isOneOf(t, UnaryOps) => c = 1
     /\ isOneOf(t, SymbolLiterals)
          => /\ c \in {1, 2}
             /\ isOneOf(t.children[1], {"SEMTREX_SYMBOL", "SEMTREX_SYMBOL_SET"})
     /\ isOneOf(t, ValueLiterals) => c = 1
     /\ is(t, "SEMTREX_SYMBOL_ANY") => c = 0
     /\ \A i \in 1..Len(patternChildren(t)) : arityHolds(patternChildren(t)[i])

\* the parent pointers below t agree with the child lists
RECURSIVE parentsHold(_)
parentsHold(t) ==
  \A i \in 1..Len(t.children) :
    t.children[i].parent = <<t.symbol>> /\ parentsHold(t.children[i])

\* does buildFA(t, ...) throw ("... must have ...", "Unknown semtrex symbol")
RECURSIVE buildFAThrows(_)
buildFAThrows(t) ==
  LET c == Len(t.children)
  IN IF isOneOf(t, ValueLiterals) THEN c = 0
     ELSE IF isOneOf(t, SymbolLiterals)
     THEN c = 0 \/ (c > 1 /\ buildFAThrows(t.children[2]))
     ELSE IF is(t, "SEMTREX_SYMBOL_ANY") THEN c > 0 /\ buildFAThrows(t.children[1])
     ELSE IF is(t, "SEMTREX_SEQUENCE")
     THEN c = 0 \/ \E x \in 1..c : buildFAThrows(t.children[x])
     ELSE IF is(t, "SEMTREX_OR")
     THEN c # 2 \/ buildFAThrows(t.children[1]) \/ buildFAThrows(t.children[2])
     ELSE IF isOneOf(t, UnaryOps) THEN c # 1 \/ buildFAThrows(t.children[1])
     ELSE TRUE

\* C26: every tree parseSemtrex returns keeps the arity of each operator
\* (SEQUENCE at least one child, OR two, a quantifier, NOT, DESCEND, WALK and
\* GROUP one, a symbol or value literal its first child), the root has no
\* parent and every other node's parent is the node whose child list holds
\* it, so makeFA raises no arity or unknown-symbol error on it.
C26_ParsedArity ==
  (parsed # <<>> /\ parsed.ok)
  => /\ arityHolds(parsed.node)
     /\ parsed.node.parent = <<>>
     /\ parentsHold(parsed.node)
     /\ ~buildFAThrows(parsed.node)

\* "/A/(B,C)" was parsed: a symbol literal whose second child is a sequence
C26_Witness ==
  /\ parsed # <<>> /\ parsed.ok
  /\ is(parsed.node, "SEMTREX_SYMBOL_LITERAL")
  /\ Len(parsed.node.children) = 2
  /\ is(parsed.node.children[2], "SEMTREX_SEQUENCE")
  /\ Len(parsed.node.children[2].children) = 2


(***************************************************************************)
(* replaceNode.                                                            *)
(***************************************************************************)
\* parent pointers and child lists of heap h agree
agree(h) ==
  /\ \A n \in DOMAIN h :
       h[n].parent # NoNode => occurrences(h[h[n].parent].children, n) = 1
  /\ \A par \in DOMAIN h : \A i \in 1..Len(h[par].children) :
       h[h[par].children[i]].parent = par

\* this step is replaceNode(dst, src) on a consistent forest in which dst and
\* src are different nodes, neither below the other
Replaces(dst, src) ==
  /\ dst # src
  /\ agree(heap)
  /\ ~ancestorWithin(dst, src, Len(heap)) /\ ~ancestorWithin(src, dst, Len(heap))
  /\ thrown' = Outcome("replaceNode", FALSE, replaceNode(heap, dst, src))
  /\ heap' = replaceNode(heap, dst, src).heap

\* C27: after replaceNode(dst, src), dst keeps its parent and its place there
\* and carries src's symbol, surface and children, every child moved has
\* parent dst, src has no children and no parent, and parent pointers and
\* child lists agree for every node, also when dst had children before and
\* when src was attached to a parent before.
C27_ReplaceNode ==
  [][\A dst \in Nodes, src \in Nodes :
       Replaces(dst, src)
       => /\ heap'[dst].parent = heap[dst].parent
          /\ heap[dst].parent # NoNode
               => indexOf(heap'[heap[dst].parent].children, dst)
                    = indexOf(heap[heap[dst].parent].children, dst)
          /\ heap'[dst].symbol = heap[src].symbol
          /\ heap'[dst].surface = heap[src].surface
          /\ heap'[dst].children = heap[src].children
          /\ \A i \in 1..Len(heap[src].children) :
               heap'[heap[src].children[i]].parent = dst
          /\ heap'[src].children = <<>>
          /\ heap'[src].parent = NoNode
          /\ agree(heap')]_vars


(***************************************************************************)
(* Targets attached under a parent.                                        *)
(***************************************************************************)
\* two calls with the same pattern on the same target, first as a root and
\* then attached at path script[2].at of a larger tree
IsAttachedPair ==
  /\ Len(script) = 2
  /\ script[1].at = <<>> /\ script[2].at # <<>>
  /\ script[1].api = script[2].api /\ script[1].pat = script[2].pat
  /\ script[1].tree = NodeAt(script[2].tree, script[2].at)

\* C28: the result depends only on the subtree rooted at the target T: with T
\* attached under a parent with a following sibling the cursor never leaves
\* T's subtree, match gives the same boolean and matchr the same null or list
\* as with T a root, and each path matchr returns leads from T (getByPath(T,
\* path)) to the node its group opened on.
C28_SubtreeOnly ==
  /\ (pc = "run" /\ ci = 2 /\ IsAttachedPair)
     => \A k \in 1..Len(frames) :
          frames[k].cursor = null \/ IsPrefix(script[2].at, frames[k].cursor)
  /\ (Done /\ IsAttachedPair /\ Returned(1) /\ Returned(2))
     => /\ results[1].isNull = results[2].isNull
        /\ results[1].api = "match" => results[1].ret = results[2].ret
        /\ (results[2].api = "matchr" /\ ~results[2].isNull)
             => \A i \in 1..Len(results[2].ret) :
                  results[2].groups[i].startNode # null
                  => script[2].at \o results[2].ret[i].path
                       = results[2].groups[i].startNode

(***************************************************************************)
(* Captures and abandoned branches.                                        *)
(***************************************************************************)
\* the symbols of the groups every route through pattern p passes: those not
\* below an alternation, an optional or starred element or a negation
RECURSIVE mustClose(_)
mustClose(p) ==
  IF p.op \in {"OR", "ZERO_OR_ONE", "ZERO_OR_MORE", "NOT"} THEN {}
  ELSE (IF p.op = "GROUP" THEN {p.syms[1]} ELSE {})
       \cup UNION {mustClose(p.kids[i]) : i \in 1..Len(p.kids)}

\* the symbols of all groups of pattern p, in pre-order
RECURSIVE groupList(_)
groupList(p) ==
  LET RECURSIVE below(_)
      below(i) == IF i > Len(p.kids) THEN <<>>
                  ELSE groupList(p.kids[i]) \o below(i + 1)
  IN (IF p.op = "GROUP" THEN <<p.syms[1]>> ELSE <<>>) \o below(1)

\* the captures of a raw capture list in pre-order, nested ones included
RECURSIVE captureList(_)
captureList(list) ==
  IF list = <<>> THEN <<>>
  ELSE <<Head(list)>> \o captureList(Head(list).children) \o captureList(Tail(list))

NoDuplicates(s) == \A i, j \in 1..Len(s) : s[i] = s[j] => i = j

\* p names each of its groups once and repeats none of them: one route
\* through p closes each group at most once
ClosesOnce(p) ==
  /\ NoDuplicates(groupList(p))
  /\ \A q \in subpatterns(p) :
       q.op \in {"ZERO_OR_MORE", "ONE_OR_MORE"} => groupList(q) = <<>>

\* the branch points that stay on a stack keep their saved capture lists
SavedGroupsKept(f, g) ==
  \A j \in 1..Len(f.stack) :
    j <= Len(g.stack) => g.stack[j].groups = f.stack[j].groups

\* C29: a capture completed on a branch abandoned by backtracking does not
\* appear in what matchr returns, the returned captures are exactly those
\* closed on the route that reaches Match, and the capture list saved in a
\* branch point is never changed by later captures.  For a pattern that
\* closes each group at most once on a route: no group is returned twice, no
\* two returned captures come from the two sides of one alternation, and
\* every group that each route passes is returned.
C29_AbandonedCaptures ==
  /\ [][\A n \in 1..Len(frames) :
          (pc = "run" /\ pc' = "run" /\ n <= Len(frames'))
          => SavedGroupsKept(frames[n], frames'[n])]_vars
  /\ [](\A i \in 1..Len(script) :
          (script[i].api = "matchr" /\ ClosesOnce(script[i].pat)
             /\ i \in DOMAIN results /\ Returned(i) /\ ~results[i].isNull)
          => LET got == captureList(results[i].groups)
                 syms == {got[k].symbol : k \in 1..Len(got)}
             IN /\ NoDuplicates([k \in 1..Len(got) |-> got[k].symbol])
                /\ \A q \in subpatterns(script[i].pat) :
                     q.op = "OR"
                     => \/ syms \cap groupSyms(q.kids[1], FALSE, FALSE) = {}
                        \/ syms \cap groupSyms(q.kids[2], FALSE, FALSE) = {}
                /\ mustClose(script[i].pat) \subseteq syms)

(***************************************************************************)
(* Alternation.                                                            *)
(***************************************************************************)
\* the script is match(/X|Y, T), match(/Y|X, T), match(/X, T), match(/Y, T)
IsOrQuad ==
  /\ Len(script) = 4
  /\ \A i \in 1..4 : script[i].api = "match" /\ script[i].tree = script[1].tree
                       /\ script[i].at = script[1].at
  /\ script[1].pat = OrP(script[3].pat, script[4].pat)
  /\ script[2].pat = OrP(script[4].pat, script[3].pat)
  /\ groupList(script[1].pat) = <<>>

\* C30: alternation is a backtracking choice whose boolean result does not
\* depend on the order of its sides: for non-capturing X and Y on which
\* matching terminates, match(/X|Y, T) = match(/Y|X, T) =
\* (match(/X, T) or match(/Y, T)).
C30_AlternationOrder ==
  (Done /\ IsOrQuad /\ Returned(3) /\ Returned(4))
  => /\ Returned(1) /\ Returned(2)
     /\ results[1].ret = results[2].ret
     /\ results[1].ret = (results[3].ret \/ results[4].ret)

\* the first side failed after moving the cursor and the second side matched
\* from the branch point, so that the two sides differ and both orders agree
C30_Witness ==
  /\ Done /\ IsOrQuad /\ Returned(3) /\ Returned(4)
  /\ script[3].pat.op \in {"SEQUENCE", "SYMBOL_LITERAL"} /\ script[3].pat.kids # <<>>
  /\ ~results[3].ret /\ results[4].ret
  /\ results[1].ret /\ results[2].ret

====
